---------------------------- MODULE Spec2Model ----------------------------
(***************************************************************************)
(* A model of the tower-comms package: the simulated mesh transport (both  *)
(* implementations kept in the repository), the Transceiver with its send  *)
(* queue and its two loops, and the TowerComms dispatcher with its         *)
(* per-kind handler lists.                                                 *)
(*                                                                         *)
(* The specifications share the variables:                                 *)
(*   SpecNet   the simulated transports driven directly (send, poll,       *)
(*             receive), as tests/test_simulated_mesh.py drives them;      *)
(*   SpecDisp  one TowerComms dispatcher: register, unregister and         *)
(*             dispatch passes;                                            *)
(*   Spec      two TowerComms nodes over a simulated transport, with a     *)
(*             third node that sends raw payloads: start/stop, send_x,     *)
(*             the send loop, the receive loop, decode and dispatch.       *)
(*   SpecSend  the sending tower of Spec alone, its neighbour list         *)
(*             reconfigured while it runs;                                 *)
(*   SpecRecv  the receiving tower of Spec alone, fed by the raw node;     *)
(*   SpecDispSeq  SpecDisp with register and unregister between passes;    *)
(*   SpecAck   the acknowledgment callbacks of each transport class;       *)
(*   SpecRace  two send loops inside one allocation of a packet id;        *)
(*   SpecCodec one packet built, serialised, parsed and extracted;         *)
(*   SpecLife  one tower whose stop() is split at its joins;              *)
(*   SpecTable the node table under construct, configure, connect, close,  *)
(*             send, poll and receive;                                     *)
(*   SpecLive  the sending tower with its send loop scheduled fairly;      *)
(*   SpecHandle  the receiving tower with handlers that may raise.         *)
(***************************************************************************)
EXTENDS Integers, Sequences, FiniteSets, TLC

(***************************************************************************)
(* Vocabulary                                                              *)
(***************************************************************************)

\* Numeric node ids used by the model.
NodeIds == {1, 2, 3, 4}

\* destination=None (broadcast).
NoDest == 0

\* "no packet id": the call raised before returning one.
NoId == -1

\* interfaces.py:307, the first id of the process-wide counter.
FirstPacketId == 1000

\* Bounds of the model.
MaxSends == 2

MaxConfig == 1

MaxCallbackRegs == 1

MaxConstruct == 1

MaxRegs == 2

MaxUnregs == 1

MaxDispatch == 2

MaxCalls == 2

MaxStarts == 2

MaxStops == 1

\* Raw payloads reach the receiver only while fewer than MaxRaw transport
\* sends have been made.
MaxRaw == 1

MaxResolve == 2

VARIABLES
    impl,               \* which SimulatedMeshInterface the process uses
    created,            \* numeric ids with an entry in the node table
    user_id,            \* display name of each entry
    neighbors,          \* the "neighbors" of each entry
    inbox,              \* the "inbox" of each entry: <<data, from_id>> pairs
    global_packet_id,   \* interfaces.SimulatedMeshInterface._global_packet_id
    packet_callback,    \* simulated_mesh: whether _packet_callback is set
    received,           \* payloads handed upward by the transport, per node
    acks,               \* every ack callback invocation, in order
    last,               \* the last transport send and how it ended
    nsend, nconf, ncb, nconstruct,  \* call counters (bounded)
    handlers,           \* per tower and kind: the list of (callback, one_time)
    pass,               \* per tower: the _invoke_handlers call in progress
    calls,              \* per tower: every handler invocation, in order
    npass,              \* per tower and kind: dispatch passes started
    popped,             \* per tower: the entries _invoke_handlers popped
    result,             \* the last TowerComms call and how it ended
    nreg, nunreg,       \* register / unregister calls made (bounded)
    clock,              \* packets stamped so far (the send-time timestamp)
    send_queue,         \* per tower: Transceiver.send_queue, (destination, data)
    stop_event,         \* per tower: whether _stop_event is set
    send_thread,        \* per tower: where _send_thread is
    recv_thread,        \* per tower: where _recv_thread is
    life,               \* per tower: "new", "started" or "stopped"
    sent,               \* every packet a send_<kind> call built, in order
    ncall, nstart, nstop, \* send_<kind>, start and stop calls made (bounded)
    handed,             \* every transport send a send loop made, in order
    alloc,              \* per tower: a send_message_with_id call in progress
    ack_class,          \* the class of the transport a Transceiver is given
    ack_attrs,          \* that transport's attributes holding ack callbacks
    supplied,           \* the callbacks Transceiver.__init__ was given
    ack_log,            \* every invocation of a supplied callback, in order
    ack_res,            \* the last acknowledgment the transport resolved
    nresolve,           \* acknowledgments resolved (bounded)
    args,               \* per tower: the data object of every handler call
    codec,              \* one data object on its way through send, the
                        \* wire and the extractor
    link                \* per tower: the transport's connection and the
                        \* start and stop calls made on the Transceiver

netvars == <<impl, created, user_id, neighbors, inbox, global_packet_id,
             packet_callback, received, acks, last, nsend, nconf, ncb,
             nconstruct>>

dispvars == <<handlers, pass, calls, npass, popped>>

apivars == <<result, nreg, nunreg, clock>>

towervars == <<send_queue, stop_event, send_thread, recv_thread, life, sent,
               ncall, nstart, nstop, handed>>

wirevars == <<ack_class, ack_attrs, supplied, ack_log, ack_res, nresolve>>

histvars == <<alloc, wirevars, args, codec>>

auxvars == <<histvars, link>>

vars == <<netvars, dispvars, apivars, towervars, auxvars>>

\* The nodes that run a TowerComms.
Towers == {1, 2}

\* The keys of TowerComms._packet_handlers.
Kinds == {"config", "no_config", "ping", "no_ping", "request_config",
          "request_ping", "error"}

\* A variant of the packet's oneof that has no entry in _packet_handlers,
\* and WhichOneof's None for a packet with no variant set.
OtherVariant == "position"

NoVariant == "none"

\* The kinds, callbacks and packet timestamps the model exercises.
KindsUsed == {"config", "ping"}

Callbacks == {"h1", "h2"}

\* Raw payloads handed to the transport directly (test_simulated_mesh.py
\* sends byte strings); a payload is a sequence of bytes.
RawPayloads == {<<72>>, <<66, 2>>}

Names == {"node", "NodeOne"}

\* The topologies test setup starts from.
EmptyTopology == [n \in NodeIds |-> {}]

NoCall == [op |-> "none", node |-> 0, data |-> <<>>, dest |-> NoDest,
           want_ack |-> FALSE, ret |-> NoId, err |-> "none",
           delivered |-> {}]

NoResult == [op |-> "none", node |-> 0, kind |-> NoVariant, cb |-> "none",
             dest |-> NoDest, outcome |-> "none"]

IdlePass == [state |-> "idle", kind |-> NoVariant, i |-> 1, to_remove |-> <<>>,
             ts |-> 0, snap |-> <<>>]

InitDispatcher ==
    /\ handlers = [n \in Towers |-> [k \in Kinds |-> <<>>]]
    /\ pass = [n \in Towers |-> IdlePass]
    /\ calls = [n \in Towers |-> <<>>]
    /\ npass = [n \in Towers |-> [k \in Kinds |-> 0]]
    /\ popped = [n \in Towers |-> <<>>]

InitApi ==
    /\ result = NoResult
    /\ nreg = 0 /\ nunreg = 0
    /\ clock = 0

\* Transceiver.__init__: an empty queue, a cleared event, two threads not
\* yet started.
InitTransceiver ==
    /\ send_queue = [n \in Towers |-> <<>>]
    /\ stop_event = [n \in Towers |-> FALSE]
    /\ send_thread = [n \in Towers |-> "new"]
    /\ recv_thread = [n \in Towers |-> "new"]
    /\ life = [n \in Towers |-> "new"]
    /\ sent = <<>>
    /\ ncall = 0 /\ nstart = 0 /\ nstop = 0
    /\ handed = <<>>

\* No send_message_with_id call is in progress.
NoAlloc == [pc |-> "idle", dest |-> NoDest, data |-> <<>>, pkt_id |-> NoId,
            tmp |-> NoId]

\* No transport has been handed to a Transceiver yet.
NoClass == "none"

NoCallback == "None"

NoResolution == [ok |-> FALSE, id |-> NoId, read |-> "none",
                 outcome |-> "none"]

\* No data object is on its way.
NoCodec == [pc |-> "idle", kind |-> NoVariant, data |-> << >>, ts |-> 0,
            packet |-> << >>, wire |-> <<>>, parsed |-> << >>, out |-> << >>]

\* A transport that was never connected, under a Transceiver on which
\* neither start nor stop was called: open, whether the last of connect and
\* close was a connect that succeeded; attempts, the connect calls made;
\* started, how the last start call ended; stopping, whether a stop call
\* is between its set and its close.
NoLink == [open |-> FALSE, attempts |-> 0, started |-> "none",
           stopping |-> FALSE]

InitAux ==
    /\ alloc = [n \in Towers |-> NoAlloc]
    /\ ack_class = NoClass
    /\ ack_attrs = << >>
    /\ supplied = [success |-> NoCallback, failure |-> NoCallback,
                   given |-> FALSE]
    /\ ack_log = <<>>
    /\ ack_res = NoResolution
    /\ nresolve = 0
    /\ args = [n \in Towers |-> <<>>]
    /\ codec = NoCodec
    /\ link = [n \in Towers |-> NoLink]

(***************************************************************************)
(* The simulated transports                                                *)
(***************************************************************************)

\* hash((numeric_id, data)) & 0xFFFFFFFF: a non-negative value below 2^32
\* that depends on the node id and the payload only.  (The values computed
\* here stay below 2^31, so the mask leaves them as they are.)
RECURSIVE BytesValue(_)
BytesValue(b) == IF b = <<>> THEN 0 ELSE b[1] + 257 * BytesValue(Tail(b))

PacketHash(n, data) == 1000003 * n + BytesValue(data)

\* An acknowledgment reported under the id of the send before.
AckArgStale(packet_id) == packet_id - 1

\* The id an acknowledgment callback is called with: the send's own id.
AckArg(packet_id) == packet_id

\* The callback invocations a delivered send may make: none unless
\* want_ack, else one call of on_ack_success or one of on_ack_fail, as
\* secrets.randbelow(100) < _ACK_SUCCESS_PERCENT decides.
SimulateAck(n, packet_id, want_ack) ==
    IF want_ack
    THEN {<<[node |-> n, ok |-> success, id |-> AckArg(packet_id)]>> :
             success \in BOOLEAN}
    ELSE {<<>>}

\* The acknowledgment of a send to an unreachable destination.
FailAck(n, packet_id, want_ack) ==
    IF want_ack
    THEN <<[node |-> n, ok |-> FALSE, id |-> AckArg(packet_id)]>>
    ELSE <<>>

\* A delivery that reaches the inbox of every node of the table.
DeliverFlood(targets, data, from) ==
    [m \in NodeIds |-> Append(inbox[m], <<data, from>>)]

\* inbox with one entry appended to the inbox of every node of targets.
Deliver(targets, data, from) ==
    [m \in NodeIds |-> IF m \in targets THEN Append(inbox[m], <<data, from>>)
                       ELSE inbox[m]]

\* A broadcast that also loops back to the sender.
BroadcastTargetsEcho(n) == neighbors[n] \cup {n}

\* simulated_mesh.py: the nodes a broadcast from n appends to.
BroadcastTargets(n) == neighbors[n]

\* simulated_mesh.py: whether a unicast destination is reachable.
IsNeighbor(n, dest) == dest \in neighbors[n]

\* interfaces.py: the nodes a broadcast puts to (a neighbour without a
\* table entry is skipped).
BroadcastTargetsWithId(n) == {m \in neighbors[n] : m \in created}

\* interfaces.py: whether a unicast destination gets the payload.
DestExists(n, dest) == dest \in created

\* A constructor that gives every id a fresh entry.
ConstructReset(n, name) ==
    /\ nconstruct < MaxConstruct
    /\ nconstruct' = nconstruct + 1
    /\ created' = created \cup {n}
    /\ user_id' = [user_id EXCEPT ![n] = name]
    /\ neighbors' = [neighbors EXCEPT ![n] = {}]
    /\ inbox' = [inbox EXCEPT ![n] = <<>>]
    /\ UNCHANGED <<dispvars, apivars, towervars>>
    /\ UNCHANGED <<impl, global_packet_id, packet_callback, received, acks,
                   last, nsend, nconf, ncb>>
    /\ UNCHANGED auxvars

\* SimulatedMeshInterface.__init__ (the same in both files): a new id gets
\* an entry with an empty inbox and no neighbours; an id that has one keeps
\* it and only its display name is overwritten.
Construct(n, name) ==
    /\ nconstruct < MaxConstruct
    /\ nconstruct' = nconstruct + 1
    /\ created' = created \cup {n}
    /\ user_id' = [user_id EXCEPT ![n] = name]
    /\ neighbors' = IF n \in created THEN neighbors
                    ELSE [neighbors EXCEPT ![n] = {}]
    /\ inbox' = IF n \in created THEN inbox ELSE [inbox EXCEPT ![n] = <<>>]
    /\ UNCHANGED <<dispvars, apivars, towervars>>
    /\ UNCHANGED <<impl, global_packet_id, packet_callback, received, acks,
                   last, nsend, nconf, ncb>>
    /\ UNCHANGED auxvars

\* configure_neighbors(ids), called by the tests on a constructed
\* transport: replaces that node's neighbour set.
ConfigureNeighbors(n, ids) ==
    /\ n \in created
    /\ nconf < MaxConfig
    /\ nconf' = nconf + 1
    /\ neighbors' = [neighbors EXCEPT ![n] = ids]
    /\ UNCHANGED <<dispvars, apivars, towervars>>
    /\ UNCHANGED <<impl, created, user_id, inbox, global_packet_id,
                   packet_callback, received, acks, last, nsend, ncb,
                   nconstruct>>
    /\ UNCHANGED auxvars

\* What simulated_mesh.SimulatedMeshInterface.send_message does to
\* <<inbox, acks, last>>.  A neighbour id with no table entry raises
\* KeyError at _nodes[nbr_id]: a broadcast has then appended to the
\* neighbours that came before it in the list, whichever those are.
SendMessageEffect(n, data, dest, want_ack) ==
    LET packet_id == PacketHash(n, data)
        call == [op |-> "send", node |-> n, data |-> data, dest |-> dest,
                 want_ack |-> want_ack, ret |-> packet_id, err |-> "none",
                 delivered |-> {}]
    IN  IF dest = NoDest
        THEN IF BroadcastTargets(n) \subseteq created
             THEN /\ inbox' = Deliver(BroadcastTargets(n), data, n)
                  /\ \E a \in SimulateAck(n, packet_id, want_ack) : acks' = acks \o a
                  /\ last' = [call EXCEPT !.delivered = BroadcastTargets(n)]
             ELSE \E early \in SUBSET (BroadcastTargets(n) \cap created) :
                  /\ inbox' = Deliver(early, data, n)
                  /\ acks' = acks
                  /\ last' = [call EXCEPT !.ret = NoId, !.err = "KeyError",
                                          !.delivered = early]
        ELSE IF IsNeighbor(n, dest)
             THEN IF dest \in created
                  THEN /\ inbox' = Deliver({dest}, data, n)
                       /\ \E a \in SimulateAck(n, packet_id, want_ack) : acks' = acks \o a
                       /\ last' = [call EXCEPT !.delivered = {dest}]
                  ELSE /\ inbox' = inbox
                       /\ acks' = acks
                       /\ last' = [call EXCEPT !.ret = NoId, !.err = "KeyError"]
             ELSE /\ inbox' = inbox
                  /\ acks' = acks \o FailAck(n, packet_id, want_ack)
                  /\ last' = call

\* simulated_mesh.SimulatedMeshInterface.send_message called directly.
send_message(n, data, dest, want_ack) ==
    /\ impl = "simulated_mesh"
    /\ n \in created
    /\ nsend < MaxSends
    /\ nsend' = nsend + 1
    /\ SendMessageEffect(n, data, dest, want_ack)
    /\ UNCHANGED <<dispvars, apivars, towervars>>
    /\ UNCHANGED <<impl, created, user_id, neighbors, global_packet_id,
                   packet_callback, received, nconf, ncb, nconstruct>>
    /\ UNCHANGED auxvars

\* What interfaces.SimulatedMeshInterface.send_message_with_id does to
\* <<inbox, acks, last>> once it has its packet id: the delivery, the
\* acknowledgment, the return.
SendBodyWithId(n, data, dest, want_ack, pkt_id) ==
    LET call == [op |-> "send", node |-> n, data |-> data, dest |-> dest,
                 want_ack |-> want_ack, ret |-> pkt_id, err |-> "none",
                 delivered |-> {}]
    IN  IF dest = NoDest
        THEN /\ inbox' = Deliver(BroadcastTargetsWithId(n), data, NoDest)
             /\ \E a \in SimulateAck(n, pkt_id, want_ack) : acks' = acks \o a
             /\ last' = [call EXCEPT !.delivered = BroadcastTargetsWithId(n)]
        ELSE IF DestExists(n, dest)
             THEN /\ inbox' = Deliver({dest}, data, NoDest)
                  /\ \E a \in SimulateAck(n, pkt_id, want_ack) : acks' = acks \o a
                  /\ last' = [call EXCEPT !.delivered = {dest}]
             ELSE /\ inbox' = inbox
                  /\ acks' = acks \o FailAck(n, pkt_id, want_ack)
                  /\ last' = call

\* What interfaces.SimulatedMeshInterface.send_message_with_id does to
\* <<inbox, acks, last, global_packet_id>> when nothing runs between its
\* statements: the id is the counter's value, the counter goes up by one.
SendMessageWithIdEffect(n, data, dest, want_ack) ==
    /\ global_packet_id' = global_packet_id + 1
    /\ SendBodyWithId(n, data, dest, want_ack, global_packet_id)

\* interfaces.SimulatedMeshInterface.send_message called directly.
send_message_with_id(n, data, dest, want_ack) ==
    /\ impl = "interfaces"
    /\ n \in created
    /\ nsend < MaxSends
    /\ nsend' = nsend + 1
    /\ SendMessageWithIdEffect(n, data, dest, want_ack)
    /\ UNCHANGED <<dispvars, apivars, towervars>>
    /\ UNCHANGED <<impl, created, user_id, neighbors, packet_callback,
                   received, nconf, ncb, nconstruct>>
    /\ UNCHANGED auxvars

\* simulated_mesh.SimulatedMeshInterface.register_packet_callback.
register_packet_callback(n) ==
    /\ impl = "simulated_mesh"
    /\ n \in created
    /\ ncb < MaxCallbackRegs
    /\ ncb' = ncb + 1
    /\ packet_callback' = [packet_callback EXCEPT ![n] = TRUE]
    /\ UNCHANGED <<dispvars, apivars, towervars>>
    /\ UNCHANGED <<impl, created, user_id, neighbors, inbox,
                   global_packet_id, received, acks, last, nsend, nconf,
                   nconstruct>>
    /\ UNCHANGED auxvars

\* The payloads of a sequence of inbox entries, in order.
RECURSIVE Datas(_)
Datas(entries) ==
    IF entries = <<>> THEN <<>>
    ELSE <<entries[1][1]>> \o Datas(Tail(entries))

\* A poll that works from the back of the inbox.
PolledNewestFirst(entries) ==
    [j \in 1..Len(entries) |-> entries[Len(entries) + 1 - j][1]]

\* What one poll hands to the callback: every entry, front first.
Polled(entries) == Datas(entries)

\* simulated_mesh.SimulatedMeshInterface.poll_inbox: pops every entry from
\* the front and passes its data to the callback, when one is registered.
poll_inbox(n) ==
    /\ impl = "simulated_mesh"
    /\ n \in created
    /\ inbox[n] # <<>>
    /\ inbox' = [inbox EXCEPT ![n] = <<>>]
    /\ received' = IF packet_callback[n]
                   THEN [received EXCEPT ![n] = @ \o Polled(inbox[n])]
                   ELSE received
    /\ UNCHANGED <<dispvars, apivars, towervars>>
    /\ UNCHANGED <<impl, created, user_id, neighbors, global_packet_id,
                   packet_callback, acks, last, nsend, nconf, ncb,
                   nconstruct>>
    /\ UNCHANGED auxvars

\* interfaces.SimulatedMeshInterface.receive_message with a non-empty
\* inbox: returns the oldest payload.  (With an empty inbox it returns None
\* after the timeout and changes nothing.)
receive_message(n) ==
    /\ impl = "interfaces"
    /\ n \in created
    /\ inbox[n] # <<>>
    /\ inbox' = [inbox EXCEPT ![n] = Tail(@)]
    /\ received' = [received EXCEPT ![n] = Append(@, Head(inbox[n])[1])]
    /\ UNCHANGED <<dispvars, apivars, towervars>>
    /\ UNCHANGED <<impl, created, user_id, neighbors, global_packet_id,
                   packet_callback, acks, last, nsend, nconf, ncb,
                   nconstruct>>
    /\ UNCHANGED auxvars

\* Topologies the node table starts in: none configured; or nodes 1 and 2
\* mutual neighbours, node 1 with the neighbours {2, 3} and node 4 a
\* neighbour of node 3 only.
StarTopology == [EmptyTopology EXCEPT ![1] = {2, 3}, ![2] = {1}, ![3] = {4}]

InitTopologies == {EmptyTopology, StarTopology}

InitNet ==
    /\ impl \in {"simulated_mesh", "interfaces"}
    /\ created \in {{1, 2, 3}, NodeIds}
    /\ user_id = [n \in NodeIds |-> "node"]
    /\ neighbors \in InitTopologies
    /\ inbox = [n \in NodeIds |-> <<>>]
    /\ global_packet_id = FirstPacketId
    /\ packet_callback = [n \in NodeIds |-> FALSE]
    /\ received = [n \in NodeIds |-> <<>>]
    /\ acks = <<>>
    /\ last = NoCall
    /\ nsend = 0 /\ nconf = 0 /\ ncb = 0 /\ nconstruct = 0
    /\ InitDispatcher
    /\ InitApi
    /\ InitTransceiver
    /\ InitAux

\* The senders and destinations SpecNet exercises: node 1 has the
\* neighbours {2, 3} in StarTopology and node 3 the neighbour 4, which may
\* have no table entry; 2 is a neighbour of 1 and not of 3.
NetSenders == {1, 3}

NetDests == {NoDest, 2, 4}

NextNet ==
    \/ \E n \in NetSenders, data \in RawPayloads, dest \in NetDests,
          want_ack \in BOOLEAN : send_message(n, data, dest, want_ack)
    \/ \E n \in NetSenders, data \in RawPayloads, dest \in NetDests,
          want_ack \in BOOLEAN : send_message_with_id(n, data, dest, want_ack)
    \/ \E n \in NodeIds : register_packet_callback(n)
    \/ \E n \in NodeIds : poll_inbox(n)
    \/ \E n \in NodeIds : receive_message(n)

SpecNet == InitNet /\ [][NextNet]_vars

\* SimulatedMeshInterface.connect (the same in both files): logs; the
\* node table is not touched.  An instance is connected at most once.
connect(n) ==
    /\ n \in created
    /\ link[n].attempts < 1 + nconstruct
    /\ link' = [link EXCEPT ![n].open = TRUE, ![n].attempts = @ + 1]
    /\ UNCHANGED <<netvars, dispvars, apivars, towervars, histvars>>

\* SimulatedMeshInterface.close (the same in both files): logs; the node
\* table is not touched.
close(n) ==
    /\ n \in created
    /\ link' = [link EXCEPT ![n].open = FALSE]
    /\ UNCHANGED <<netvars, dispvars, apivars, towervars, histvars>>

InitTable == InitNet /\ neighbors = StarTopology

\* The node table under every operation of the simulated transports: a
\* second transport constructed for an id (2 has an entry, 4 may have
\* none), node 1 given the neighbours {2, 4}, connect and close of node 2,
\* sends of one payload from node 1 to a neighbour, to a non-neighbour and
\* to all, polls and receives of node 2.
NextTable ==
    \/ \E n \in {2, 4}, name \in Names : Construct(n, name)
    \/ neighbors[1] # {2, 4} /\ ConfigureNeighbors(1, {2, 4})
    \/ connect(2)
    \/ close(2)
    \/ \E dest \in NetDests, want_ack \in BOOLEAN :
          send_message(1, <<72>>, dest, want_ack)
    \/ \E dest \in NetDests, want_ack \in BOOLEAN :
          send_message_with_id(1, <<72>>, dest, want_ack)
    \/ poll_inbox(2)
    \/ receive_message(2)

SpecTable == InitTable /\ [][NextTable]_vars

(***************************************************************************)
(* The dispatcher (TowerComms handler lists and _invoke_handlers)          *)
(*                                                                         *)
(* A list entry is the tuple (callback, one_time).  The model adds         *)
(* history fields the code does not read: calls, the numbers of the passes *)
(* of its kind that invoked this entry, born, how many passes of its kind  *)
(* had started when it was registered, and at, how many packets had been   *)
(* stamped when it was registered.  A pass keeps, likewise unread, snap:   *)
(* the list as it was when the pass started.                               *)
(***************************************************************************)

\* The entry register_<kind>_handler appends.
NewEntry(h, one_time, born) ==
    [cb |-> h, one_time |-> one_time, calls |-> <<>>, born |-> born,
     at |-> clock]

\* The list after register_<kind>_handler(h, one_time=one_time).
Registered(list, h, one_time, born) == Append(list, NewEntry(h, one_time, born))

\* TowerComms.register_<kind>_handler: appends (handler, one_time).
register_handler(n, kind, h, one_time) ==
    /\ nreg < MaxRegs
    /\ nreg' = nreg + 1
    /\ handlers' = [handlers EXCEPT ![n][kind] =
                       Registered(@, h, one_time, npass[n][kind])]
    /\ UNCHANGED <<netvars, towervars, pass, calls, npass, popped, result,
                   nunreg, clock>>
    /\ UNCHANGED auxvars

\* The positions of list whose callback is h.
Matches(list, h) == {j \in 1..Len(list) : list[j].cb = h}

\* An unregister that looks for the handler from the back of the list.
LastMatch(list, h) ==
    IF Matches(list, h) = {} THEN 0
    ELSE CHOOSE j \in Matches(list, h) : \A l \in Matches(list, h) : j >= l

\* The position unregister_<kind>_handler removes: the first whose callback
\* equals h (0 when there is none).
FirstMatch(list, h) ==
    IF Matches(list, h) = {} THEN 0
    ELSE CHOOSE j \in Matches(list, h) : \A l \in Matches(list, h) : j <= l

\* A removal that always takes the head of the list.
RemoveHead(list, j) == Tail(list)

\* list without its j-th element.
RemoveAt(list, j) ==
    [l \in 1..(Len(list) - 1) |-> IF l < j THEN list[l] ELSE list[l + 1]]

\* An unregister that drops the head of the list when nothing matches.
UnregisteredHead(list, h) ==
    IF FirstMatch(list, h) # 0 THEN RemoveAt(list, FirstMatch(list, h))
    ELSE IF list = <<>> THEN list ELSE Tail(list)

\* The list after unregister_<kind>_handler(h).
Unregistered(list, h) ==
    IF FirstMatch(list, h) = 0 THEN list ELSE RemoveAt(list, FirstMatch(list, h))

\* TowerComms.unregister_<kind>_handler: removes the first entry whose
\* callback is h and returns True, or returns False.
unregister_handler(n, kind, h) ==
    /\ nunreg < MaxUnregs
    /\ nunreg' = nunreg + 1
    /\ handlers' = [handlers EXCEPT ![n][kind] = Unregistered(@, h)]
    /\ result' = [NoResult EXCEPT
                    !.op = "unregister", !.node = n, !.kind = kind, !.cb = h,
                    !.outcome = IF FirstMatch(handlers[n][kind], h) = 0
                                THEN "False" ELSE "True"]
    /\ UNCHANGED <<netvars, towervars, pass, calls, npass, popped, nreg, clock>>
    /\ UNCHANGED auxvars

\* A dispatcher that hands a packet of an unknown variant to the config
\* handlers.
DispatchStartFallback(n, variant, ts) ==
    LET kind == IF variant \in Kinds THEN variant ELSE "config"
    IN  /\ pass' = [pass EXCEPT ![n] = [state |-> "iter", kind |-> kind,
                                        i |-> 1, to_remove |-> <<>>,
                                        ts |-> ts,
                                        snap |-> handlers[n][kind]]]
        /\ npass' = [npass EXCEPT ![n][kind] = @ + 1]

\* A table that sends ping packets to the config handlers.
ListOfCrossed(variant) == IF variant = "ping" THEN "config" ELSE variant

\* The list that the _handle_<variant> method of _packet_handlers[variant]
\* passes to _invoke_handlers: the list of that same kind.
ListOf(variant) == variant

\* What on_packet_received does with a packet whose WhichOneof("msg") is
\* variant: a variant without an entry in _packet_handlers is logged and
\* dropped; for a kind, _invoke_handlers starts on that kind's list.
DispatchStart(n, variant, ts) ==
    IF variant \in Kinds
    THEN /\ pass' = [pass EXCEPT ![n] = [state |-> "iter",
                                         kind |-> ListOf(variant),
                                         i |-> 1, to_remove |-> <<>>,
                                         ts |-> ts,
                                         snap |-> handlers[n][ListOf(variant)]]]
         /\ npass' = [npass EXCEPT ![n][ListOf(variant)] = @ + 1]
    ELSE /\ pass' = pass
         /\ npass' = npass

\* node_id=None, the default of the data classes.
NoNodeId == 0

\* _extract_<kind>(getattr(packet, kind)): the data object a handler is
\* called with.  It is built from the variant's own fields and
\* timestamp=packet.timestamp; node_id is not among the arguments and keeps
\* its default.
Extract(kind, ts) == [kind |-> kind, node_id |-> NoNodeId, timestamp |-> ts]

\* A dispatcher that never removes an entry.
MarksNothing(entry) == FALSE

\* Whether the entry at position i is put on to_remove after its call.
MarksForRemoval(entry) == entry.one_time

\* An iterator that stays where it is.
SamePosition(i) == i

\* The position enumerate's list iterator looks at next.
NextPosition(i) == i + 1

\* One iteration of "for i, (callback, one_time) in enumerate(handlers_list)":
\* the entry at the iterator's position is called and, when one_time, its
\* position is put on to_remove.
InvokeNext(n) ==
    LET p == pass[n]
        list == handlers[n][p.kind]
    IN  /\ p.state = "iter"
        /\ p.i <= Len(list)
        /\ calls' = [calls EXCEPT ![n] = Append(@, <<list[p.i].cb, p.kind, p.ts>>)]
        /\ handlers' = [handlers EXCEPT ![n][p.kind][p.i].calls =
                           Append(@, npass[n][p.kind])]
        /\ pass' = [pass EXCEPT ![n].i = NextPosition(p.i),
                                ![n].to_remove =
                                    IF MarksForRemoval(list[p.i])
                                    THEN Append(p.to_remove, p.i)
                                    ELSE p.to_remove]
        /\ args' = [args EXCEPT ![n] = Append(@, Extract(p.kind, p.ts))]
        /\ UNCHANGED <<netvars, towervars, npass, popped, apivars>>
        /\ UNCHANGED <<alloc, wirevars, codec, link>>

\* The iterator is exhausted: the first loop ends.
IterEnd(n) ==
    LET p == pass[n]
    IN  /\ p.state = "iter"
        /\ p.i > Len(handlers[n][p.kind])
        /\ pass' = [pass EXCEPT ![n].state = "remove"]
        /\ UNCHANGED <<netvars, towervars, handlers, calls, npass, popped, apivars>>
        /\ UNCHANGED auxvars

\* The position "for i in reversed(to_remove)" pops next.
NextPop(to_remove) == to_remove[Len(to_remove)]

\* One iteration of "for i in reversed(to_remove): handlers_list.pop(i)";
\* pop raises IndexError, which ends _invoke_handlers, when the list has
\* no such position any more.
RemoveNext(n) ==
    LET p == pass[n]
        list == handlers[n][p.kind]
        idx == NextPop(p.to_remove)
    IN  /\ p.state = "remove"
        /\ p.to_remove # <<>>
        /\ IF idx <= Len(list)
           THEN /\ handlers' = [handlers EXCEPT ![n][p.kind] = RemoveAt(list, idx)]
                /\ popped' = [popped EXCEPT ![n] = Append(@, list[idx])]
                /\ pass' = [pass EXCEPT ![n].to_remove =
                               SubSeq(p.to_remove, 1, Len(p.to_remove) - 1)]
           ELSE /\ handlers' = handlers
                /\ popped' = popped
                /\ pass' = [pass EXCEPT ![n] = [IdlePass EXCEPT !.state = "raised"]]
        /\ UNCHANGED <<netvars, towervars, calls, npass, apivars>>
        /\ UNCHANGED auxvars

\* _invoke_handlers returns (or its IndexError has been caught and logged
\* by _handle_incoming_packet).
PassEnd(n) ==
    LET p == pass[n]
    IN  /\ \/ p.state = "remove" /\ p.to_remove = <<>>
           \/ p.state = "raised"
        /\ pass' = [pass EXCEPT ![n] = IdlePass]
        /\ UNCHANGED <<netvars, towervars, handlers, calls, npass, popped, apivars>>
        /\ UNCHANGED auxvars

\* on_packet_received called with a decoded packet whose variant is
\* variant (the caller is the receive path; one call at a time).
on_packet_received(n, variant) ==
    /\ pass[n].state = "idle"
    /\ clock < MaxDispatch
    /\ clock' = clock + 1
    /\ DispatchStart(n, variant, clock + 1)
    /\ result' = [NoResult EXCEPT !.op = "dispatch", !.node = n,
                                  !.kind = variant,
                                  !.outcome = IF variant \in Kinds
                                              THEN "handled" ELSE "ignored"]
    /\ UNCHANGED <<netvars, towervars, handlers, calls, popped, nreg, nunreg>>
    /\ UNCHANGED auxvars

\* The tower the dispatcher specifications exercise.
DispTower == {1}

InitDisp ==
    /\ impl = "interfaces"
    /\ created = Towers
    /\ user_id = [n \in NodeIds |-> "node"]
    /\ neighbors = EmptyTopology
    /\ inbox = [n \in NodeIds |-> <<>>]
    /\ global_packet_id = FirstPacketId
    /\ packet_callback = [n \in NodeIds |-> FALSE]
    /\ received = [n \in NodeIds |-> <<>>]
    /\ acks = <<>>
    /\ last = NoCall
    /\ nsend = 0 /\ nconf = 0 /\ ncb = 0 /\ nconstruct = 0
    /\ InitDispatcher
    /\ InitApi
    /\ InitTransceiver
    /\ InitAux

\* The dispatcher used from one thread: register and unregister are called
\* between dispatch passes.
NextDispSeq ==
    \/ \E n \in DispTower, k \in KindsUsed, h \in Callbacks, o \in BOOLEAN :
          pass[n].state = "idle" /\ register_handler(n, k, h, o)
    \/ \E n \in DispTower, k \in KindsUsed, h \in Callbacks :
          pass[n].state = "idle" /\ unregister_handler(n, k, h)
    \/ \E n \in DispTower, v \in KindsUsed \cup {OtherVariant} :
          on_packet_received(n, v)
    \/ \E n \in DispTower : InvokeNext(n)
    \/ \E n \in DispTower : IterEnd(n)
    \/ \E n \in DispTower : RemoveNext(n)
    \/ \E n \in DispTower : PassEnd(n)

SpecDispSeq == InitDisp /\ [][NextDispSeq]_vars

\* The dispatcher used from several threads: register and unregister may
\* be called at any point of a dispatch pass (from another thread, or from
\* the handler being invoked).  One kind is exercised.
ConcurrentKinds == {"config"}

NextDisp ==
    \/ \E n \in DispTower, k \in ConcurrentKinds, h \in Callbacks, o \in BOOLEAN :
          register_handler(n, k, h, o)
    \/ \E n \in DispTower, k \in ConcurrentKinds, h \in Callbacks :
          unregister_handler(n, k, h)
    \/ \E n \in DispTower, v \in ConcurrentKinds \cup {OtherVariant, NoVariant} :
          on_packet_received(n, v)
    \/ \E n \in DispTower : InvokeNext(n)
    \/ \E n \in DispTower : IterEnd(n)
    \/ \E n \in DispTower : RemoveNext(n)
    \/ \E n \in DispTower : PassEnd(n)

SpecDisp == InitDisp /\ [][NextDisp]_vars

(***************************************************************************)
(* The packet codec.  The compiled protobuf classes are generated at       *)
(* import time and are not part of the source tree; the model keeps of a   *)
(* packet its variant, its timestamp and some of the variants' fields, and *)
(* of the wire format that a packet is a tag byte, the timestamp, and one  *)
(* (field number, value) pair per field that is not at its default and per *)
(* element of a repeated field.                                            *)
(***************************************************************************)

\* The tag of each variant of the packet's oneof.
Tag(kind) ==
    CASE kind = "config" -> 1
      [] kind = "no_config" -> 2
      [] kind = "ping" -> 3
      [] kind = "no_ping" -> 4
      [] kind = "request_config" -> 5
      [] kind = "request_ping" -> 6
      [] kind = "error" -> 7

\* The variant fields the model keeps, with the value a field reads as
\* when it was never set.  A string is kept as a number.
DefaultFields == [run_num |-> 0, target_frequencies |-> <<>>,
                  frequency |-> 0, amplitude |-> 0, error_message |-> 0]

\* The fields of each variant, in field-number order.
FieldNames(kind) ==
    CASE kind = "config" -> <<"run_num", "target_frequencies">>
      [] kind = "ping" -> <<"frequency", "amplitude">>
      [] kind = "error" -> <<"error_message">>
      [] OTHER -> <<>>

FieldsOf(kind) == {FieldNames(kind)[j] : j \in 1..Len(FieldNames(kind))}

IsRepeated(name) == name = "target_frequencies"

\* The wire form of a repeated field: one pair per element, in order.
RECURSIVE RepeatedBytes(_, _)
RepeatedBytes(no, list) ==
    IF list = <<>> THEN <<>>
    ELSE <<no, Head(list)>> \o RepeatedBytes(no, Tail(list))

\* The wire form of the fields of a variant from field number no on.
RECURSIVE SerializeFields(_, _, _)
SerializeFields(kind, fields, no) ==
    IF no > Len(FieldNames(kind)) THEN <<>>
    ELSE LET name == FieldNames(kind)[no]
             this == IF IsRepeated(name) THEN RepeatedBytes(no, fields[name])
                     ELSE IF fields[name] = DefaultFields[name] THEN <<>>
                     ELSE <<no, fields[name]>>
         IN  this \o SerializeFields(kind, fields, no + 1)

\* packet.SerializeToString().
SerializeToString(packet) ==
    <<Tag(packet.kind), packet.ts>> \o SerializeFields(packet.kind, packet.fields, 1)

\* The serialisation of a packet of the given kind and timestamp whose
\* variant fields are all at their defaults.
Encode(kind, ts) ==
    SerializeToString([kind |-> kind, ts |-> ts, fields |-> DefaultFields])

\* What ParseFromString raises on is reported as this value.
DecodeError == [kind |-> "DecodeError", ts |-> 0]

\* The variant a tag stands for; an unknown tag is skipped by the parser
\* and leaves the oneof unset.
KindOfTag(t) ==
    IF \E k \in Kinds : Tag(k) = t THEN CHOOSE k \in Kinds : Tag(k) = t
    ELSE NoVariant

\* A parser that puts each element of a repeated field in front.
ElementPrepended(list, v) == <<v>> \o list

\* A repeated field after the parser has read one more element of it.
ElementAppended(list, v) == Append(list, v)

\* The fields after the pairs of bytes have been read: a scalar field takes
\* the value read last, a repeated field grows, an unknown field number is
\* skipped.
RECURSIVE ParseFields(_, _, _)
ParseFields(kind, bytes, fields) ==
    IF bytes = <<>> THEN fields
    ELSE LET no == bytes[1]
             rest == SubSeq(bytes, 3, Len(bytes))
         IN  IF no \in 1..Len(FieldNames(kind))
             THEN LET name == FieldNames(kind)[no]
                  IN  ParseFields(kind, rest,
                         IF IsRepeated(name)
                         THEN [fields EXCEPT ![name] = ElementAppended(@, bytes[2])]
                         ELSE [fields EXCEPT ![name] = bytes[2]])
             ELSE ParseFields(kind, rest, fields)

\* MeshPacket().ParseFromString(data): a truncated payload raises.
ParseFromString(data) ==
    IF Len(data) < 2 \/ (Len(data) - 2) % 2 = 1 THEN DecodeError
    ELSE [kind |-> KindOfTag(data[1]), ts |-> data[2],
          fields |-> ParseFields(KindOfTag(data[1]),
                                 SubSeq(data, 3, Len(data)), DefaultFields)]

\* The variant and the timestamp of the packet ParseFromString yields.
Decode(data) ==
    IF ParseFromString(data) = DecodeError THEN DecodeError
    ELSE [kind |-> ParseFromString(data).kind, ts |-> ParseFromString(data).ts]

(***************************************************************************)
(* The Transceiver and the TowerComms send calls                           *)
(***************************************************************************)

\* A send loop that asks for an acknowledgment of every send.
WantAckAlways(dest) == TRUE

\* _send_loop: want_ack = destination is not None.
WantAck(dest) == dest # NoDest

\* A validation that accepts every destination.
ValidAlways(n, dest) == TRUE

\* _validate_destination: None, or a member of get_neighbors().
ValidDestination(n, dest) == dest = NoDest \/ dest \in neighbors[n]

\* A receive loop that ends when a payload cannot be decoded.
RecvAfterHandleCrash(data) ==
    IF Decode(data) = DecodeError THEN "done" ELSE "test"

\* Where the receive loop is after _handle_incoming_packet(data): the
\* try/except there keeps every error inside, so the loop goes on.
RecvAfterHandle(data) == "test"

\* A start that carries on when connect has raised.
AfterConnectIgnored(outcome) == "launch"

\* What start does once connect has returned or raised: the exception of
\* connect leaves start at once.
AfterConnect(outcome) == IF outcome = "ok" THEN "launch" ELSE "raise"

\* Transceiver.start when connect returns: connect, clear the stop event,
\* start both threads.  Thread.start raises RuntimeError for a thread
\* started before.
start(n) ==
    /\ nstart < MaxStarts
    /\ nstart' = nstart + 1
    /\ stop_event' = [stop_event EXCEPT ![n] = FALSE]
    /\ IF send_thread[n] = "new"
       THEN /\ send_thread' = [send_thread EXCEPT ![n] = "run"]
            /\ recv_thread' = [recv_thread EXCEPT ![n] = "run"]
            /\ life' = [life EXCEPT ![n] = "started"]
       ELSE UNCHANGED <<send_thread, recv_thread, life>>
    /\ link' = [link EXCEPT ![n].open = TRUE, ![n].attempts = @ + 1,
                            ![n].started = IF send_thread[n] = "new"
                                           THEN "ok" ELSE "RuntimeError"]
    /\ UNCHANGED <<netvars, dispvars, apivars, send_queue, sent, ncall,
                   nstop, handed>>
    /\ UNCHANGED histvars

\* Transceiver.start when connect raises MeshConnectionError (as
\* MeshtasticMeshInterface.connect does when the device cannot be opened;
\* the connect of a simulated transport never raises): the exception
\* leaves start before the stop event is cleared and before a thread is
\* started.
start_refused(n) ==
    /\ nstart < MaxStarts
    /\ nstart' = nstart + 1
    /\ link' = [link EXCEPT ![n].attempts = @ + 1,
                            ![n].started = "MeshConnectionError"]
    /\ IF AfterConnect("MeshConnectionError") = "raise"
       THEN UNCHANGED <<stop_event, send_thread, recv_thread, life>>
       ELSE /\ stop_event' = [stop_event EXCEPT ![n] = FALSE]
            /\ IF send_thread[n] = "new"
               THEN /\ send_thread' = [send_thread EXCEPT ![n] = "run"]
                    /\ recv_thread' = [recv_thread EXCEPT ![n] = "run"]
                    /\ life' = [life EXCEPT ![n] = "started"]
               ELSE UNCHANGED <<send_thread, recv_thread, life>>
    /\ UNCHANGED <<netvars, dispvars, apivars, send_queue, sent, ncall,
                   nstop, handed>>
    /\ UNCHANGED histvars

\* Transceiver.stop: set the stop event, join both threads for at most two
\* seconds each, close.  Thread.join raises RuntimeError for a thread that
\* was never started.
stop(n) ==
    /\ nstop < MaxStops
    /\ ~link[n].stopping
    /\ nstop' = nstop + 1
    /\ stop_event' = [stop_event EXCEPT ![n] = TRUE]
    /\ IF send_thread[n] = "new"
       THEN life' = life /\ link' = link
       ELSE /\ life' = [life EXCEPT ![n] = "stopped"]
            /\ link' = [link EXCEPT ![n].open = FALSE]
    /\ UNCHANGED <<netvars, dispvars, apivars, send_queue, send_thread,
                   recv_thread, sent, ncall, nstart, handed>>
    /\ UNCHANGED histvars

\* Transceiver.stop, its first statement: _stop_event.set().
stop_set(n) ==
    /\ nstop < MaxStops
    /\ ~link[n].stopping
    /\ nstop' = nstop + 1
    /\ stop_event' = [stop_event EXCEPT ![n] = TRUE]
    /\ link' = [link EXCEPT ![n].stopping = TRUE]
    /\ UNCHANGED <<netvars, dispvars, apivars, send_queue, send_thread,
                   recv_thread, life, sent, ncall, nstart, handed>>
    /\ UNCHANGED histvars

\* Transceiver.stop, the rest: each join(timeout=2) returns when its thread
\* has ended or when two seconds have passed, whichever comes first, and
\* close follows.  How long a loop stays in the call it is in (a transport
\* send, a handler) is not bounded by the code, so this step may be taken
\* whatever the threads are doing.  join raises RuntimeError for a thread
\* that was never started, and close is then not reached.
stop_close(n) ==
    /\ link[n].stopping
    /\ IF send_thread[n] = "new"
       THEN life' = life /\ link' = [link EXCEPT ![n].stopping = FALSE]
       ELSE /\ life' = [life EXCEPT ![n] = "stopped"]
            /\ link' = [link EXCEPT ![n].stopping = FALSE, ![n].open = FALSE]
    /\ UNCHANGED <<netvars, dispvars, apivars, send_queue, stop_event,
                   send_thread, recv_thread, sent, ncall, nstart, nstop,
                   handed>>
    /\ UNCHANGED histvars

\* A queue that hands out the newest item first.
EnqueuedFront(queue, dest, data) == <<<<dest, data>>>> \o queue

\* Transceiver.enqueue_packet: serialises and puts on the queue.
Enqueued(queue, dest, data) == Append(queue, <<dest, data>>)

\* TowerComms.send_<kind>(data, destination): validate the destination,
\* build and stamp the packet, enqueue it.
send_kind(n, kind, dest) ==
    /\ ncall < MaxCalls
    /\ ncall' = ncall + 1
    /\ IF ValidDestination(n, dest)
       THEN /\ clock' = clock + 1
            /\ send_queue' = [send_queue EXCEPT ![n] =
                                 Enqueued(@, dest, Encode(kind, clock + 1))]
            /\ sent' = Append(sent, [node |-> n, dest |-> dest, kind |-> kind,
                                     ts |-> clock + 1])
            /\ result' = [NoResult EXCEPT !.op = "send", !.node = n,
                                          !.kind = kind, !.dest = dest,
                                          !.outcome = "ok"]
       ELSE /\ UNCHANGED <<clock, send_queue, sent>>
            /\ result' = [NoResult EXCEPT !.op = "send", !.node = n,
                                          !.kind = kind, !.dest = dest,
                                          !.outcome = "ValueError"]
    /\ UNCHANGED <<netvars, dispvars, nreg, nunreg, stop_event, send_thread,
                   recv_thread, life, nstart, nstop, handed>>
    /\ UNCHANGED auxvars

\* mesh_interface.send_message(data, destination, want_ack=...) on the
\* transport of the process.
TransportSend(n, data, dest, want_ack) ==
    IF impl = "interfaces"
    THEN SendMessageWithIdEffect(n, data, dest, want_ack)
    ELSE /\ SendMessageEffect(n, data, dest, want_ack)
         /\ global_packet_id' = global_packet_id

\* A send loop that an error of the transport ends.
SendAfterIterationDies(err, stopped) ==
    IF err # "none" \/ stopped THEN "done" ELSE "run"

\* Where the send loop is after one iteration: "except Exception" logs
\* whatever the transport raised, then the loop condition
\* "not self._stop_event.is_set()" is evaluated.
SendAfterIteration(err, stopped) == IF stopped THEN "done" ELSE "run"

\* A send loop that puts an item whose send raised back on the queue.
RequeuedOnError(queue, err) ==
    IF err = "none" THEN Tail(queue) ELSE Append(Tail(queue), Head(queue))

\* _send_loop: send_queue.get removed the item before the send; neither
\* the "except Exception" branch nor anything after the send puts it back.
Remaining(queue, err) == Tail(queue)

\* The record of one transport send made by a send loop.
Handed(call) == [node |-> call.node, dest |-> call.dest, data |-> call.data,
                 ret |-> call.ret, err |-> call.err]

\* _send_loop, one iteration that finds an item: get it, hand it to the
\* transport (an error of the transport is logged), evaluate the loop
\* condition.  A thread that is "run" is inside the loop body, waiting in
\* send_queue.get.
SendIter(n) ==
    /\ send_thread[n] = "run"
    /\ alloc[n].pc = "idle"
    /\ send_queue[n] # <<>>
    /\ nsend' = nsend + 1
    /\ TransportSend(n, Head(send_queue[n])[2], Head(send_queue[n])[1],
                     WantAck(Head(send_queue[n])[1]))
    /\ send_queue' = [send_queue EXCEPT ![n] = Remaining(@, last'.err)]
    /\ handed' = Append(handed, Handed(last'))
    /\ send_thread' = [send_thread EXCEPT ![n] =
                          SendAfterIteration(last'.err, stop_event[n])]
    /\ UNCHANGED <<impl, created, user_id, neighbors, packet_callback,
                   received, nconf, ncb, nconstruct>>
    /\ UNCHANGED <<dispvars, apivars, stop_event, recv_thread, life, sent,
                   ncall, nstart, nstop>>
    /\ UNCHANGED auxvars

\* A send loop that a get that timed out ends.
SendExitOnEmpty(n) ==
    /\ send_thread[n] = "run"
    /\ stop_event[n] \/ send_queue[n] = <<>>
    /\ send_thread' = [send_thread EXCEPT ![n] = "done"]
    /\ UNCHANGED <<netvars, dispvars, apivars, send_queue, stop_event,
                   recv_thread, life, sent, ncall, nstart, nstop, handed>>
    /\ UNCHANGED auxvars

\* _send_loop, the loop condition found false (after a get that timed out,
\* or on entry): the thread ends, whatever is still queued.
SendExit(n) ==
    /\ send_thread[n] = "run"
    /\ stop_event[n]
    /\ send_thread' = [send_thread EXCEPT ![n] = "done"]
    /\ UNCHANGED <<netvars, dispvars, apivars, send_queue, stop_event,
                   recv_thread, life, sent, ncall, nstart, nstop, handed>>
    /\ UNCHANGED auxvars

\* _recv_loop, one iteration that gets a payload from
\* interfaces.SimulatedMeshInterface.receive_message and passes it to
\* _handle_incoming_packet.  (simulated_mesh.SimulatedMeshInterface has no
\* receive_message: there every iteration logs the AttributeError and
\* changes nothing.)  A thread that is "run" is inside receive_message; one
\* that is "test" evaluates the loop condition once the dispatch returned.
RecvIter(n) ==
    /\ recv_thread[n] = "run"
    /\ impl = "interfaces"
    /\ inbox[n] # <<>>
    /\ LET data == Head(inbox[n])[1]
           packet == Decode(data)
       IN  /\ inbox' = [inbox EXCEPT ![n] = Tail(@)]
           /\ received' = [received EXCEPT ![n] = Append(@, data)]
           /\ recv_thread' = [recv_thread EXCEPT ![n] = RecvAfterHandle(data)]
           /\ IF packet = DecodeError
              THEN UNCHANGED <<pass, npass>>
              ELSE DispatchStart(n, packet.kind, packet.ts)
    /\ UNCHANGED <<impl, created, user_id, neighbors, global_packet_id,
                   packet_callback, acks, last, nsend, nconf, ncb,
                   nconstruct>>
    /\ UNCHANGED <<handlers, calls, popped, apivars, send_queue, stop_event,
                   send_thread, life, sent, ncall, nstart, nstop, handed>>
    /\ UNCHANGED auxvars

\* _recv_loop, the loop condition: evaluated after a packet was handled,
\* and found false after a receive that returned nothing.
RecvTest(n) ==
    /\ \/ recv_thread[n] = "test" /\ pass[n].state = "idle"
       \/ recv_thread[n] = "run" /\ stop_event[n]
    /\ recv_thread' = [recv_thread EXCEPT ![n] =
                          IF stop_event[n] THEN "done" ELSE "run"]
    /\ UNCHANGED <<netvars, dispvars, apivars, send_queue, stop_event,
                   send_thread, life, sent, ncall, nstart, nstop, handed>>
    /\ UNCHANGED auxvars

\* Towers 1 and 2 are mutual neighbours; node 3, which sends raw payloads,
\* has both as neighbours.
TowerTopology == [EmptyTopology EXCEPT ![1] = {2}, ![2] = {1}, ![3] = {1, 2}]

\* The nodes that use their transport directly.
RawNodes == {3}

Init ==
    /\ impl \in {"simulated_mesh", "interfaces"}
    /\ created = {1, 2, 3}
    /\ user_id = [n \in NodeIds |-> "node"]
    /\ neighbors = TowerTopology
    /\ inbox = [n \in NodeIds |-> <<>>]
    /\ global_packet_id = FirstPacketId
    /\ packet_callback = [n \in NodeIds |-> FALSE]
    /\ received = [n \in NodeIds |-> <<>>]
    /\ acks = <<>>
    /\ last = NoCall
    /\ nsend = 0 /\ nconf = 0 /\ ncb = 0 /\ nconstruct = 0
    /\ InitDispatcher
    /\ InitApi
    /\ InitTransceiver
    /\ InitAux

\* In Spec tower 1 calls send_<kind> and tower 2 registers handlers; both
\* are started and stopped and run both loops.
Sender == 1

Receiver == 2

\* The kind and the destinations the send_<kind> calls of Spec use.
SendKinds == {"config"}

SendDests == {NoDest, 2, 3}

Next ==
    \/ \E n \in Towers : start(n)
    \/ \E n \in Towers : stop(n)
    \/ \E k \in SendKinds, d \in SendDests : send_kind(Sender, k, d)
    \/ \E k \in SendKinds :
          handlers[Receiver][k] = <<>> /\ register_handler(Receiver, k, "h1", FALSE)
    \/ neighbors[Sender] # {} /\ ConfigureNeighbors(Sender, {})
    \/ \E n \in Towers : SendIter(n)
    \/ \E n \in Towers : SendExit(n)
    \/ \E n \in Towers : RecvIter(n)
    \/ \E n \in Towers : RecvTest(n)
    \/ \E n \in Towers : InvokeNext(n)
    \/ \E n \in Towers : IterEnd(n)
    \/ \E n \in Towers : PassEnd(n)
    \/ \E n \in Towers : poll_inbox(n)
    \/ \E r \in RawNodes, data \in RawPayloads :
          nsend < MaxRaw /\ send_message(r, data, Receiver, FALSE)
    \/ \E r \in RawNodes, data \in RawPayloads :
          nsend < MaxRaw /\ send_message_with_id(r, data, Receiver, FALSE)

Spec == Init /\ [][Next]_vars

\* The sending side alone: tower 1 is started (its connect may be refused)
\* and stopped, has its
\* neighbour list reconfigured to one of SendNeighborLists, calls
\* send_<kind>, and runs its loops, over either simulated transport.  Node
\* 4 has no table entry: over simulated_mesh.py a broadcast to the
\* neighbours {2, 4} raises KeyError inside the send loop.
SendNeighborLists == {{}, {2}, {2, 3}, {2, 4}}

NextSend ==
    \/ start(Sender)
    \/ start_refused(Sender)
    \/ stop(Sender)
    \/ \E k \in SendKinds, d \in SendDests : send_kind(Sender, k, d)
    \/ \E ids \in SendNeighborLists :
          neighbors[Sender] # ids /\ ConfigureNeighbors(Sender, ids)
    \/ SendIter(Sender)
    \/ SendExit(Sender)
    \/ RecvTest(Sender)

SpecSend == Init /\ [][NextSend]_vars

\* The sending tower with its send loop scheduled fairly: a send thread
\* that can make an iteration eventually makes one.
NextLive ==
    \/ start(Sender)
    \/ stop(Sender)
    \/ \E k \in SendKinds, d \in SendDests : send_kind(Sender, k, d)
    \/ SendIter(Sender)
    \/ SendExit(Sender)

SpecLive == Init /\ [][NextLive]_vars /\ WF_vars(SendIter(Sender))

\* The payloads the raw nodes hand to the receiver's transport in
\* SpecRecv: the two of RawPayloads and an encoded config packet.
RecvPayloads == RawPayloads \cup {Encode("config", 1)}

InitRecv == Init /\ impl = "interfaces"

\* The receiving side alone: tower 2, over the transport that has
\* receive_message, registers a handler, is started and stopped and runs
\* its loops while a raw node sends it payloads.
NextRecv ==
    \/ start(Receiver)
    \/ stop(Receiver)
    \/ \E k \in SendKinds :
          handlers[Receiver][k] = <<>> /\ register_handler(Receiver, k, "h1", FALSE)
    \/ \E r \in RawNodes, data \in RecvPayloads :
          send_message_with_id(r, data, Receiver, FALSE)
    \/ RecvIter(Receiver)
    \/ RecvTest(Receiver)
    \/ SendExit(Receiver)
    \/ InvokeNext(Receiver)
    \/ IterEnd(Receiver)
    \/ PassEnd(Receiver)

SpecRecv == InitRecv /\ [][NextRecv]_vars

\* A receive thread that a handler's exception ends.
RecvAfterRaiseDies(thread) == "done"

\* Where the receive thread is after a handler raised: the exception
\* leaves _invoke_handlers and on_packet_received and is caught and logged
\* by the try/except of _handle_incoming_packet, so the thread goes on to
\* its loop condition as after any packet.
RecvAfterRaise(thread) == thread

\* _invoke_handlers, one iteration of the first loop in which
\* callback(data) raises: the handler was called; the rest of the pass,
\* the removal of one-shot entries included, does not happen.
InvokeRaises(n) ==
    LET p == pass[n]
        list == handlers[n][p.kind]
    IN  /\ p.state = "iter"
        /\ p.i <= Len(list)
        /\ calls' = [calls EXCEPT ![n] = Append(@, <<list[p.i].cb, p.kind, p.ts>>)]
        /\ handlers' = [handlers EXCEPT ![n][p.kind][p.i].calls =
                           Append(@, npass[n][p.kind])]
        /\ pass' = [pass EXCEPT ![n] = [IdlePass EXCEPT !.state = "raised"]]
        /\ args' = [args EXCEPT ![n] = Append(@, Extract(p.kind, p.ts))]
        /\ recv_thread' = [recv_thread EXCEPT ![n] = RecvAfterRaise(@)]
        /\ UNCHANGED <<netvars, npass, popped, apivars, send_queue,
                       stop_event, send_thread, life, sent, ncall, nstart,
                       nstop, handed>>
        /\ UNCHANGED <<alloc, wirevars, codec, link>>

\* The receiving side with handlers that may raise: tower 2 registers a
\* one-shot or a normal handler, is started and stopped, and dispatches
\* what the raw node sends it.
NextHandle ==
    \/ start(Receiver)
    \/ stop(Receiver)
    \/ \E k \in SendKinds, o \in BOOLEAN :
          handlers[Receiver][k] = <<>> /\ register_handler(Receiver, k, "h1", o)
    \/ \E r \in RawNodes, data \in RecvPayloads :
          send_message_with_id(r, data, Receiver, FALSE)
    \/ RecvIter(Receiver)
    \/ RecvTest(Receiver)
    \/ InvokeNext(Receiver)
    \/ InvokeRaises(Receiver)
    \/ IterEnd(Receiver)
    \/ RemoveNext(Receiver)
    \/ PassEnd(Receiver)

SpecHandle == InitRecv /\ [][NextHandle]_vars

\* The life of one Transceiver: tower 1 is started (its connect may be
\* refused) and stopped, stop being taken statement by statement, while it
\* sends and while a raw node sends it payloads that its receive loop
\* dispatches.
NextLife ==
    \/ start(Sender)
    \/ start_refused(Sender)
    \/ stop_set(Sender)
    \/ stop_close(Sender)
    \/ \E k \in SendKinds, d \in SendDests : send_kind(Sender, k, d)
    \/ \E k \in SendKinds :
          handlers[Sender][k] = <<>> /\ register_handler(Sender, k, "h1", FALSE)
    \/ \E r \in RawNodes, data \in RecvPayloads :
          nsend < MaxRaw /\ send_message_with_id(r, data, Sender, FALSE)
    \/ SendIter(Sender)
    \/ SendExit(Sender)
    \/ RecvIter(Sender)
    \/ RecvTest(Sender)
    \/ InvokeNext(Sender)
    \/ IterEnd(Sender)
    \/ PassEnd(Sender)

SpecLife == InitRecv /\ [][NextLife]_vars

(***************************************************************************)
(* Two send loops inside interfaces.SimulatedMeshInterface                 *)
(* .send_message_with_id at once.  The method takes no lock: the read of   *)
(* _global_packet_id, the read and the write of "+= 1" are separate steps  *)
(* of the calling thread, and the steps of two threads interleave.         *)
(***************************************************************************)

\* _send_loop gets an item and calls send_message, which reaches
\* send_message_with_id and finds the sender's table entry.
SendTake(n) ==
    /\ impl = "interfaces"
    /\ send_thread[n] = "run"
    /\ alloc[n].pc = "idle"
    /\ send_queue[n] # <<>>
    /\ send_queue' = [send_queue EXCEPT ![n] = Tail(@)]
    /\ alloc' = [alloc EXCEPT ![n] =
                    [NoAlloc EXCEPT !.pc = "read",
                                    !.dest = Head(send_queue[n])[1],
                                    !.data = Head(send_queue[n])[2]]]
    /\ UNCHANGED <<netvars, dispvars, apivars, wirevars, args, codec, link>>
    /\ UNCHANGED <<stop_event, send_thread, recv_thread, life, sent, ncall,
                   nstart, nstop, handed>>

\* pkt_id = SimulatedMeshInterface._global_packet_id
IdRead(n) ==
    /\ alloc[n].pc = "read"
    /\ alloc' = [alloc EXCEPT ![n].pc = "load",
                              ![n].pkt_id = global_packet_id]
    /\ UNCHANGED <<netvars, dispvars, apivars, towervars, wirevars, args, codec, link>>

\* SimulatedMeshInterface._global_packet_id += 1, the read.
IdLoad(n) ==
    /\ alloc[n].pc = "load"
    /\ alloc' = [alloc EXCEPT ![n].pc = "store", ![n].tmp = global_packet_id]
    /\ UNCHANGED <<netvars, dispvars, apivars, towervars, wirevars, args, codec, link>>

\* SimulatedMeshInterface._global_packet_id += 1, the write.
IdStore(n) ==
    /\ alloc[n].pc = "store"
    /\ global_packet_id' = alloc[n].tmp + 1
    /\ alloc' = [alloc EXCEPT ![n].pc = "body"]
    /\ UNCHANGED <<impl, created, user_id, neighbors, inbox, packet_callback,
                   received, acks, last, nsend, nconf, ncb, nconstruct>>
    /\ UNCHANGED <<dispvars, apivars, towervars, wirevars, args, codec, link>>

\* The rest of send_message_with_id and of the loop iteration: delivery,
\* acknowledgment, return of pkt_id, the loop condition.
SendBody(n) ==
    /\ alloc[n].pc = "body"
    /\ nsend' = nsend + 1
    /\ SendBodyWithId(n, alloc[n].data, alloc[n].dest, WantAck(alloc[n].dest),
                      alloc[n].pkt_id)
    /\ handed' = Append(handed, Handed(last'))
    /\ send_thread' = [send_thread EXCEPT ![n] =
                          SendAfterIteration(last'.err, stop_event[n])]
    /\ alloc' = [alloc EXCEPT ![n] = NoAlloc]
    /\ UNCHANGED <<impl, created, user_id, neighbors, global_packet_id,
                   packet_callback, received, nconf, ncb, nconstruct>>
    /\ UNCHANGED <<dispvars, apivars, wirevars, args, codec, link>>
    /\ UNCHANGED <<send_queue, stop_event, recv_thread, life, sent, ncall,
                   nstart, nstop>>

\* Both towers are started and call send_<kind>; their send loops run
\* send_message_with_id step by step.
NextRace ==
    \/ \E n \in Towers : start(n)
    \/ \E n \in Towers, k \in SendKinds, d \in SendDests : send_kind(n, k, d)
    \/ \E n \in Towers : SendTake(n)
    \/ \E n \in Towers : IdRead(n)
    \/ \E n \in Towers : IdLoad(n)
    \/ \E n \in Towers : IdStore(n)
    \/ \E n \in Towers : SendBody(n)

SpecRace == InitRecv /\ [][NextRace]_vars

(***************************************************************************)
(* The acknowledgment callbacks: how Transceiver.__init__ hands the        *)
(* application's two callbacks to the transport, and which attribute each  *)
(* transport class reads when it has resolved an acknowledgment.           *)
(***************************************************************************)

\* The transport classes of the package: those of simulated_mesh.py and
\* meshtastic_mesh.py derive from mesh_interface.MeshInterface, those of
\* interfaces.py from interfaces.MeshInterface.
AckClasses == {"simulated_mesh.SimulatedMeshInterface",
               "meshtastic_mesh.MeshtasticMeshInterface",
               "interfaces.SimulatedMeshInterface",
               "interfaces.MeshtasticMeshInterface"}

FromMeshInterfaceModule(c) ==
    c \in {"simulated_mesh.SimulatedMeshInterface",
           "meshtastic_mesh.MeshtasticMeshInterface"}

\* The instance attributes that can hold an acknowledgment callback.
AckSlots == {"_on_ack_success", "_on_ack_failure", "_on_ack_fail",
             "on_ack_fail", "on_ack_failure"}

\* The value of an attribute the instance does not have.
Absent == "absent"

\* MeshInterface.__init__ of the class's base: mesh_interface.py sets
\* _on_ack_success and _on_ack_failure to None, interfaces.py sets
\* _on_ack_success and _on_ack_fail.
InitAttrs(c) ==
    [a \in AckSlots |->
        IF a = "_on_ack_success" THEN NoCallback
        ELSE IF FromMeshInterfaceModule(c) /\ a = "_on_ack_failure" THEN NoCallback
        ELSE IF ~FromMeshInterfaceModule(c) /\ a = "_on_ack_fail" THEN NoCallback
        ELSE Absent]

\* The instance attribute behind a public name: the properties of the
\* base class map on_ack_success to _on_ack_success and, in
\* mesh_interface.py, on_ack_failure to _on_ack_failure, in interfaces.py,
\* on_ack_fail to _on_ack_fail; any other name is a plain attribute.
Slot(c, name) ==
    IF name = "on_ack_success" THEN "_on_ack_success"
    ELSE IF FromMeshInterfaceModule(c) /\ name = "on_ack_failure"
         THEN "_on_ack_failure"
    ELSE IF ~FromMeshInterfaceModule(c) /\ name = "on_ack_fail"
         THEN "_on_ack_fail"
    ELSE name

\* The name each class reads when it has resolved an acknowledgment:
\* simulated_mesh.py on_ack_success / on_ack_fail, meshtastic_mesh.py
\* on_ack_success / on_ack_failure, interfaces.py _on_ack_success /
\* _on_ack_fail (both classes).
ReadName(c, ok) ==
    IF c = "simulated_mesh.SimulatedMeshInterface"
    THEN (IF ok THEN "on_ack_success" ELSE "on_ack_fail")
    ELSE IF c = "meshtastic_mesh.MeshtasticMeshInterface"
    THEN (IF ok THEN "on_ack_success" ELSE "on_ack_failure")
    ELSE (IF ok THEN "_on_ack_success" ELSE "_on_ack_fail")

\* A transport object of class c is constructed.
ConstructTransport(c) ==
    /\ ack_class = NoClass
    /\ ack_class' = c
    /\ ack_attrs' = InitAttrs(c)
    /\ UNCHANGED <<supplied, ack_log, ack_res, nresolve>>
    /\ UNCHANGED <<netvars, dispvars, apivars, towervars, alloc, args, codec,
                   link>>

\* Transceiver.__init__(mesh_interface, on_ack_success, on_ack_fail):
\* assigns mesh_interface.on_ack_success and mesh_interface.on_ack_fail.
TransceiverInit(success, failure) ==
    /\ ack_class # NoClass
    /\ ~supplied.given
    /\ supplied' = [success |-> success, failure |-> failure, given |-> TRUE]
    /\ ack_attrs' = [ack_attrs EXCEPT
                        ![Slot(ack_class, "on_ack_success")] = success,
                        ![Slot(ack_class, "on_ack_fail")] = failure]
    /\ UNCHANGED <<ack_class, ack_log, ack_res, nresolve>>
    /\ UNCHANGED <<netvars, dispvars, apivars, towervars, alloc, args, codec,
                   link>>

\* The transport has resolved the acknowledgment of packet id as succeeded
\* (ok) or failed: it reads its callback attribute and calls what it
\* finds there, if anything.
ResolveAck(ok, id) ==
    LET name == ReadName(ack_class, ok)
        found == ack_attrs[Slot(ack_class, name)]
    IN  /\ ack_class # NoClass
        /\ nresolve < MaxResolve
        /\ nresolve' = nresolve + 1
        /\ ack_log' = IF found \in {Absent, NoCallback} THEN ack_log
                      ELSE Append(ack_log, [cb |-> found, id |-> id])
        /\ ack_res' = [ok |-> ok, id |-> id, read |-> name,
                       outcome |-> IF found = Absent THEN "AttributeError"
                                   ELSE IF found = NoCallback THEN "skipped"
                                   ELSE "called"]
        /\ UNCHANGED <<ack_class, ack_attrs, supplied>>
        /\ UNCHANGED <<netvars, dispvars, apivars, towervars, alloc, args, codec,
                       link>>

\* What the application passes as callbacks, and the packet ids resolved.
AppSuccess == {"app_on_ack_success", NoCallback}

AppFailure == {"app_on_ack_failure", NoCallback}

AckIds == {FirstPacketId, FirstPacketId + 1}

NextAck ==
    \/ \E c \in AckClasses : ConstructTransport(c)
    \/ \E sc \in AppSuccess, fl \in AppFailure : TransceiverInit(sc, fl)
    \/ \E ok \in BOOLEAN, id \in AckIds : ResolveAck(ok, id)

SpecAck == Init /\ [][NextAck]_vars

(***************************************************************************)
(* One data object from send_<kind> to the handler: the packet              *)
(* send_<kind> builds from it, the bytes enqueue_packet serialises, the     *)
(* packet _handle_incoming_packet parses from them, the data object         *)
(* _extract_<kind> builds from that.                                        *)
(***************************************************************************)

\* The longest target_frequencies list the model sends.
MaxFreqs == 2

\* The lists of at most n elements of S.
RECURSIVE SeqsUpTo(_, _)
SeqsUpTo(S, n) ==
    IF n = 0 THEN {<<>>}
    ELSE SeqsUpTo(S, n - 1) \cup
         {Append(q, x) : q \in {r \in SeqsUpTo(S, n - 1) : Len(r) = n - 1},
                         x \in S}

\* The data objects handed to send_<kind>: the fields of the kind range
\* over a few values, the fields of other kinds do not exist in the data
\* class and are kept at their defaults.
SendData(kind) ==
    {d \in [run_num : {0, 999},
            target_frequencies : SeqsUpTo({100, 200}, MaxFreqs),
            frequency : {0, 440}, amplitude : {0, 75},
            error_message : {0, 7}] :
        \A f \in (DOMAIN DefaultFields) \ FieldsOf(kind) : d[f] = DefaultFields[f]}

\* A send_config that leaves target_frequencies out.
BuildPacketNoList(kind, data, ts) ==
    [kind |-> kind, ts |-> ts,
     fields |-> [f \in DOMAIN DefaultFields |->
                   IF f \in FieldsOf(kind) /\ ~IsRepeated(f) THEN data[f]
                   ELSE DefaultFields[f]]]

\* The packet send_<kind>(data) builds: the timestamp is stamped and every
\* field of the kind is copied from the data object (a list with extend).
BuildPacket(kind, data, ts) ==
    [kind |-> kind, ts |-> ts,
     fields |-> [f \in DOMAIN DefaultFields |->
                   IF f \in FieldsOf(kind) THEN data[f] ELSE DefaultFields[f]]]

\* The variant fields of the data object _extract_<kind> builds: every
\* field of the kind is read from the variant message.
ExtractFields(kind, packet) ==
    [f \in DOMAIN DefaultFields |->
        IF f \in FieldsOf(kind) THEN packet.fields[f] ELSE DefaultFields[f]]

\* send_<kind>(data): the packet is built and stamped.
CodecBuild(kind, data, ts) ==
    /\ codec.pc = "idle"
    /\ codec' = [codec EXCEPT !.pc = "built", !.kind = kind, !.data = data,
                              !.ts = ts, !.packet = BuildPacket(kind, data, ts)]
    /\ UNCHANGED <<netvars, dispvars, apivars, towervars, alloc, wirevars, args,
                   link>>

\* enqueue_packet: packet.SerializeToString().
CodecSerialize ==
    /\ codec.pc = "built"
    /\ codec' = [codec EXCEPT !.pc = "wire",
                              !.wire = SerializeToString(codec.packet)]
    /\ UNCHANGED <<netvars, dispvars, apivars, towervars, alloc, wirevars, args,
                   link>>

\* _handle_incoming_packet: ParseFromString(data).
CodecParse ==
    /\ codec.pc = "wire"
    /\ codec' = [codec EXCEPT !.pc = "parsed",
                              !.parsed = ParseFromString(codec.wire)]
    /\ UNCHANGED <<netvars, dispvars, apivars, towervars, alloc, wirevars, args,
                   link>>

\* on_packet_received: extractor(getattr(packet, field)).
CodecExtract ==
    /\ codec.pc = "parsed"
    /\ codec.parsed # DecodeError
    /\ codec.parsed.kind \in Kinds
    /\ codec' = [codec EXCEPT !.pc = "extracted",
                              !.out = ExtractFields(codec.parsed.kind,
                                                    codec.parsed)]
    /\ UNCHANGED <<netvars, dispvars, apivars, towervars, alloc, wirevars, args,
                   link>>

\* The timestamps the model stamps on such a packet.
CodecStamps == {1, 2}

NextCodec ==
    \/ \E kind \in Kinds, ts \in CodecStamps : \E data \in SendData(kind) :
          CodecBuild(kind, data, ts)
    \/ CodecSerialize
    \/ CodecParse
    \/ CodecExtract

SpecCodec == InitDisp /\ [][NextCodec]_vars

(***************************************************************************)
(* Claims about the simulated transports (SpecNet)                         *)
(***************************************************************************)

\* A step of SpecNet that is one transport send call.
IsSendStep == nsend' = nsend + 1

\* C2: a broadcast from a node A whose neighbours are constructed nodes
\* appends exactly one copy of the payload to the inbox of every neighbour
\* of A and nothing to the inbox of any other node, A included.
C2_BroadcastFanOut ==
    [][ (IsSendStep /\ last'.dest = NoDest
            /\ neighbors[last'.node] \subseteq created)
        => \A m \in NodeIds :
              Datas(inbox'[m]) =
                 IF m \in neighbors[last'.node]
                 THEN Append(Datas(inbox[m]), last'.data)
                 ELSE Datas(inbox[m]) ]_vars

\* A broadcast from node 1, whose neighbours are 2 and 3, has put one copy
\* into the inboxes of 2 and 3 and none into those of 1 and 4.
C2_Witness ==
    /\ last.op = "send" /\ last.node = 1 /\ last.dest = NoDest
    /\ nsend = 1
    /\ neighbors[1] = {2, 3}
    /\ Datas(inbox[2]) = <<last.data>> /\ Datas(inbox[3]) = <<last.data>>
    /\ inbox[1] = <<>> /\ inbox[4] = <<>>

\* C3 (as claimed): a send with want_ack to a specific destination that is
\* not a neighbour of the sender calls the failure callback once with the
\* returned packet id, never the success callback, and changes no inbox.
C3_UnreachableAckFailure ==
    [][ (IsSendStep /\ last'.want_ack /\ last'.dest # NoDest
            /\ last'.dest \notin neighbors[last'.node])
        => /\ acks' = Append(acks, [node |-> last'.node, ok |-> FALSE,
                                    id |-> last'.ret])
           /\ inbox' = inbox ]_vars

\* C10 (as claimed): every send with want_ack makes exactly one
\* acknowledgment callback invocation, with the packet id the send
\* returns; a send without want_ack makes none; and nothing but a send
\* invokes an acknowledgment callback.
C10_ExactlyOneAck ==
    [][ IF IsSendStep
        THEN IF last'.want_ack
             THEN /\ Len(acks') = Len(acks) + 1
                  /\ SubSeq(acks', 1, Len(acks)) = acks
                  /\ acks'[Len(acks')].node = last'.node
                  /\ acks'[Len(acks')].id = last'.ret
                  /\ last'.ret # NoId
             ELSE acks' = acks
        ELSE acks' = acks ]_vars

\* C12 (as claimed): of two consecutive simulated sends that return a
\* packet id, whichever nodes and payloads they have, the later returns a
\* larger id than the earlier.
C12_PacketIdsIncrease ==
    [][ (IsSendStep /\ last.op = "send"
            /\ last.ret # NoId /\ last'.ret # NoId)
        => last'.ret > last.ret ]_vars

(***************************************************************************)
(* Claims about the dispatcher (SpecDispSeq)                               *)
(***************************************************************************)

\* The pass numbers born+1 .. upto, in order.
PassesSince(born, upto) == [j \in 1..(upto - born) |-> born + j]

IsUnregisterStep == nunreg' = nunreg + 1

C5_UnregisterAbsent ==
    [][ (/\ IsUnregisterStep
         /\ FirstMatch(handlers[result'.node][result'.kind], result'.cb) = 0)
        => /\ result'.outcome = "False"
           /\ handlers' = handlers ]_vars

C5_Witness ==
    /\ result.op = "unregister"
    /\ result.outcome = "False"
    /\ result.cb = "h2"
    /\ result.kind = "config"
    /\ Len(handlers[1]["config"]) = 2
    /\ handlers[1]["config"][1].cb = "h1"
    /\ handlers[1]["config"][2].cb = "h1"
    /\ handlers[1]["config"][2].one_time

(***************************************************************************)
(* Claims about towers over a simulated transport (Spec, SpecSend,         *)
(* SpecRecv)                                                               *)
(***************************************************************************)

IsCallStep == ncall' = ncall + 1

IsRecvStep(n) == Len(received'[n]) = Len(received[n]) + 1

\* How often x occurs in seq.
Count(seq, x) == Cardinality({j \in 1..Len(seq) : seq[j] = x})

\* The packet of the send record s is still on its way: in the sender's
\* queue, in the destination's inbox, or being dispatched there.
InFlight(s) ==
    \/ \E j \in 1..Len(send_queue[s.node]) :
          send_queue[s.node][j] = <<s.dest, Encode(s.kind, s.ts)>>
    \/ \E j \in 1..Len(inbox[s.dest]) :
          inbox[s.dest][j][1] = Encode(s.kind, s.ts)
    \/ pass[s.dest].state # "idle" /\ pass[s.dest].ts = s.ts

\* C1 (as claimed): for every packet a started tower A sent to a started
\* tower B while the two are mutual neighbours, every handler that B had
\* registered for the packet's kind before the packet was sent has been
\* invoked at most once with it, and exactly once when the packet is no
\* longer in A's queue, in B's inbox or in dispatch at B.
C1_UnicastExactlyOnce ==
    \A i \in 1..Len(sent) :
        LET s == sent[i]
        IN  (/\ s.dest \in Towers
             /\ life[s.node] = "started" /\ life[s.dest] = "started"
             /\ s.dest \in neighbors[s.node] /\ s.node \in neighbors[s.dest])
            => \A j \in 1..Len(handlers[s.dest][s.kind]) :
                  LET e == handlers[s.dest][s.kind][j]
                      seen == Count(calls[s.dest], <<e.cb, s.kind, s.ts>>)
                  IN  e.at < s.ts =>
                         /\ seen <= 1
                         /\ ~InFlight(s) => seen = 1

\* C6: a receive step whose payload cannot be decoded invokes no handler,
\* starts no dispatch, changes no handler list and leaves the receive loop
\* on its way to the next iteration; a receive step whose payload decodes
\* to a known kind starts the dispatch of that kind with the packet's
\* contents, whatever was received before.
C6_MalformedContained ==
    [][ \A n \in Towers : IsRecvStep(n) =>
           LET packet == Decode(Head(inbox[n])[1])
           IN  /\ recv_thread'[n] = "test"
               /\ IF packet = DecodeError
                  THEN calls' = calls /\ pass' = pass /\ handlers' = handlers
                  ELSE packet.kind \in Kinds =>
                          /\ pass'[n].state = "iter"
                          /\ pass'[n].kind = packet.kind
                          /\ pass'[n].ts = packet.ts ]_vars

C6_Witness ==
    /\ received[2] = <<<<72>>, Encode("config", 1)>>
    /\ Decode(<<72>>) = DecodeError
    /\ calls[2] = <<<<"h1", "config", 1>>>>
    /\ pass[2].state = "idle"
    /\ recv_thread[2] = "run"

\* C7: a send_<kind> call whose destination is a node id outside the
\* caller's neighbour list ends in ValueError and leaves the send queues
\* and the record of built packets unchanged; every other call, a broadcast
\* included, is accepted and appends its packet to the caller's queue; and
\* every item a send loop hands to the transport is one an accepted call
\* built.
C7_DestinationValidation ==
    [][ /\ IsCallStep =>
             LET n == result'.node
                 d == result'.dest
             IN  /\ result'.op = "send"
                 /\ IF d # NoDest /\ d \notin neighbors[n]
                    THEN /\ result'.outcome = "ValueError"
                         /\ send_queue' = send_queue
                         /\ sent' = sent
                    ELSE /\ result'.outcome = "ok"
                         /\ Len(send_queue'[n]) = Len(send_queue[n]) + 1
                         /\ SubSeq(send_queue'[n], 1, Len(send_queue[n]))
                               = send_queue[n]
                         /\ send_queue'[n][Len(send_queue'[n])][1] = d
                         /\ \A m \in Towers \ {n} :
                               send_queue'[m] = send_queue[m]
        /\ (nsend' = nsend + 1 /\ last'.node \in Towers) =>
             \E j \in 1..Len(sent) :
                /\ sent[j].node = last'.node
                /\ sent[j].dest = last'.dest
                /\ Encode(sent[j].kind, sent[j].ts) = last'.data ]_vars

C7_Witness ==
    /\ result.op = "send"
    /\ result.outcome = "ValueError"
    /\ result.node = 1
    /\ result.dest = 3
    /\ neighbors[1] = {2}
    /\ Len(sent) = 1
    /\ sent[1].dest = NoDest
    /\ Len(send_queue[1]) = 1
    /\ send_queue[1][1][1] = NoDest

\* C8 (as claimed): a call that reaches enqueue_packet on a tower that is
\* not started (never started, or stopped) ends in a not-connected error
\* and leaves the send queues unchanged.
C8_EnqueueNeedsStarted ==
    [][ (/\ IsCallStep
         /\ life[result'.node] # "started"
         /\ ValidDestination(result'.node, result'.dest))
        => /\ result'.outcome = "NotConnected"
           /\ send_queue' = send_queue ]_vars

\* C9: every transport send a tower's send loop makes passes the head of
\* that tower's queue with want_ack true exactly when the item's
\* destination is a node id; a send of a broadcast item invokes no
\* acknowledgment callback.
C9_AckOnlyForUnicast ==
    [][ (nsend' = nsend + 1 /\ last'.node \in Towers) =>
           LET item == Head(send_queue[last'.node])
           IN  /\ send_queue[last'.node] # <<>>
               /\ last'.dest = item[1]
               /\ last'.data = item[2]
               /\ last'.want_ack <=> (item[1] # NoDest)
               /\ item[1] = NoDest => acks' = acks ]_vars

C9_Witness ==
    /\ last.op = "send"
    /\ last.node = 1
    /\ last.dest = NoDest
    /\ ~last.want_ack
    /\ Len(sent) = 2
    /\ sent[1].dest = 2
    /\ Len(acks) = 1
    /\ acks[1].node = 1

\* The (destination, data) pairs tower n's send loop handed to the
\* transport, and those its accepted send_<kind> calls built, in order.
RECURSIVE HandedItems(_, _)
HandedItems(log, n) ==
    IF log = <<>> THEN <<>>
    ELSE (IF log[1].node = n THEN <<<<log[1].dest, log[1].data>>>> ELSE <<>>)
         \o HandedItems(Tail(log), n)

RECURSIVE BuiltItems(_, _)
BuiltItems(built, n) ==
    IF built = <<>> THEN <<>>
    ELSE (IF built[1].node = n
          THEN <<<<built[1].dest, Encode(built[1].kind, built[1].ts)>>>>
          ELSE <<>>)
         \o BuiltItems(Tail(built), n)

IsLoopSendStep == Len(handed') = Len(handed) + 1

\* C14: at every moment, what a tower's send loop has handed to the
\* transport so far, followed by what is still in its queue, is exactly
\* the sequence of packets enqueued on that tower, in enqueue order; and
\* a send_<kind> call makes no transport send itself.
C14_FifoHandOver ==
    [][ /\ \A n \in Towers :
              HandedItems(handed', n) \o send_queue'[n] = BuiltItems(sent', n)
        /\ IsCallStep =>
              /\ nsend' = nsend /\ handed' = handed /\ last' = last
              /\ inbox' = inbox /\ acks' = acks ]_vars

C14_Witness ==
    /\ Len(sent) = 2
    /\ sent[1].node = 1 /\ sent[1].dest = 2
    /\ sent[2].node = 1 /\ sent[2].dest = NoDest
    /\ Len(handed) = 2
    /\ handed[1].dest = 2 /\ handed[1].data = Encode(sent[1].kind, sent[1].ts)
    /\ handed[2].dest = NoDest
    /\ handed[2].data = Encode(sent[2].kind, sent[2].ts)
    /\ send_queue[1] = <<>>

\* C15: a send-loop iteration in which the transport's send raises leaves
\* the loop running (it ends only if stop was called), leaves the result
\* of the caller's last call and the record of built packets alone, and
\* removes only the failed item from the queue; and every iteration after
\* such a failure still hands the head of the queue to the transport.
C15_SendErrorContained ==
    [][ IsLoopSendStep =>
           LET n == last'.node
           IN  /\ last'.err # "none" =>
                     /\ send_thread'[n] = IF stop_event[n] THEN "done" ELSE "run"
                     /\ result' = result
                     /\ sent' = sent
                     /\ send_queue'[n] = Tail(send_queue[n])
               /\ (\E i \in 1..Len(handed) :
                      handed[i].node = n /\ handed[i].err # "none") =>
                     /\ send_queue[n] # <<>>
                     /\ <<last'.dest, last'.data>> = Head(send_queue[n]) ]_vars

C15_Witness ==
    /\ Len(handed) = 2
    /\ handed[1].node = 1 /\ handed[1].err = "KeyError"
    /\ handed[2].node = 1 /\ handed[2].err = "none"
    /\ handed[2].dest = sent[2].dest
    /\ handed[2].data = Encode(sent[2].kind, sent[2].ts)
    /\ send_thread[1] = "run"

\* C27: each enqueued packet is passed to the transport's send at most
\* once.  A transport send made by a send loop hands over a packet that
\* loop never handed over before, and takes it off the queue for good,
\* whether the send returned, raised, or reported an acknowledgment
\* failure; the queue of a tower grows only by an accepted send_<kind>
\* call, one packet per call; and only the send loop calls the transport's
\* send.
C27_NoAutomaticRetry ==
    [][ /\ IsLoopSendStep =>
              LET n == last'.node
              IN  /\ \A i \in 1..Len(handed) :
                        handed[i].node = n => handed[i].data # last'.data
                  /\ \A q \in 1..Len(send_queue'[n]) :
                        send_queue'[n][q][2] # last'.data
                  /\ Len(send_queue'[n]) = Len(send_queue[n]) - 1
        /\ \A n \in Towers :
              Len(send_queue'[n]) > Len(send_queue[n]) =>
                 /\ IsCallStep /\ result'.outcome = "ok"
                 /\ Len(send_queue'[n]) = Len(send_queue[n]) + 1
        /\ nsend' # nsend => IsLoopSendStep /\ nsend' = nsend + 1 ]_vars

\* A send that raised and a unicast whose acknowledgment failed, each
\* handed over once, the queue empty and the loop still running.
C27_Witness ==
    /\ Len(sent) = 2 /\ Len(handed) = 2 /\ nsend = 2
    /\ handed[1].node = 1 /\ handed[1].err = "KeyError"
    /\ handed[2].node = 1 /\ handed[2].err = "none" /\ handed[2].dest = 2
    /\ \E a \in 1..Len(acks) :
          acks[a].node = 1 /\ ~acks[a].ok /\ acks[a].id = handed[2].ret
    /\ send_queue[1] = <<>>
    /\ send_thread[1] = "run"
    /\ stop_event[1] = FALSE

(***************************************************************************)
(* Claims about concurrent sends (SpecRace)                                *)
(***************************************************************************)

\* C13 (as claimed): the packet ids the send loops' transport sends
\* returned are pairwise different, however the steps of the two loops
\* interleave.
C13_ConcurrentIdsDistinct ==
    \A i, j \in 1..Len(handed) :
        i # j => handed[i].ret # handed[j].ret

(***************************************************************************)
(* Claims about the acknowledgment callbacks (SpecAck)                     *)
(***************************************************************************)

\* C11 (as claimed): whenever the transport a Transceiver was constructed
\* with resolves an acknowledgment, the callback the application supplied
\* for that outcome (on_ack_success for succeeded, on_ack_failure for
\* failed) is invoked once with the resolved packet id.
C11_SuppliedCallbackInvoked ==
    [][ (nresolve' = nresolve + 1 /\ supplied.given) =>
           LET want == IF ack_res'.ok THEN supplied.success
                       ELSE supplied.failure
           IN  want # NoCallback =>
                  ack_log' = Append(ack_log, [cb |-> want, id |-> ack_res'.id])
      ]_vars

(***************************************************************************)
(* Claims about dispatch passes (SpecDisp, SpecDispSeq)                    *)
(***************************************************************************)

\* A step in which tower n's dispatcher invokes a handler.
IsInvokeStep(n) == Len(calls'[n]) = Len(calls[n]) + 1

\* The positions of list whose entry has been invoked in pass number cur.
InvokedIn(list, cur) == {j \in 1..Len(list) : Count(list[j].calls, cur) > 0}

\* C16: every handler invocation of a dispatch pass for kind K invokes one
\* entry of K's list that has not been invoked in this pass before, with
\* the packet of the pass, and every entry invoked earlier in the pass
\* stands before it in the list, i.e. was registered before it.
C16_RegistrationOrder ==
    [][ \A n \in Towers : IsInvokeStep(n) =>
           LET k == pass[n].kind
               list == handlers[n][k]
               cur == npass[n][k]
               now == {j \in 1..Len(list) :
                          handlers'[n][k][j].calls # list[j].calls}
           IN  /\ Len(handlers'[n][k]) = Len(list)
               /\ Cardinality(now) = 1
               /\ \A j \in now :
                     /\ handlers'[n][k][j].calls = Append(list[j].calls, cur)
                     /\ calls'[n] = Append(calls[n], <<list[j].cb, k, pass[n].ts>>)
                     /\ j \notin InvokedIn(list, cur)
                     /\ \A l \in InvokedIn(list, cur) : l < j ]_vars

C16_Witness ==
    /\ Len(handlers[1]["config"]) = 2
    /\ handlers[1]["config"][1].cb = "h1"
    /\ handlers[1]["config"][2].cb = "h2"
    /\ handlers[1]["config"][1].calls = <<1>>
    /\ handlers[1]["config"][2].calls = <<1>>
    /\ calls[1] = <<<<"h1", "config", 1>>, <<"h2", "config", 1>>>>

\* C17 (as claimed): an entry is never invoked in a pass that had already
\* started when the entry was registered: every pass that invoked it
\* started after its registration.
C17_RegisteredMidPassWaits ==
    \A n \in Towers : \A k \in Kinds : \A j \in 1..Len(handlers[n][k]) :
        LET e == handlers[n][k][j]
        IN  \A c \in 1..Len(e.calls) : e.calls[c] > e.born

\* C18 (as claimed): when the iteration of a pass for kind K is over,
\* every entry that was in K's list when the pass started and is still in
\* it has been invoked exactly once in the pass; and every entry the
\* dispatcher itself removed is a one-shot entry that had been invoked.
C18_UnregisterMidPassSkipsNone ==
    \A n \in Towers :
        /\ pass[n].state = "remove" =>
              LET k == pass[n].kind
                  cur == npass[n][k]
              IN  \A j \in 1..Len(handlers[n][k]) :
                     handlers[n][k][j].born < cur =>
                        Count(handlers[n][k][j].calls, cur) = 1
        /\ \A j \in 1..Len(popped[n]) :
              popped[n][j].one_time /\ popped[n][j].calls # <<>>

\* The (callback, one_time) tuples of a list, in order.
Shape(list) == [j \in 1..Len(list) |-> <<list[j].cb, list[j].one_time>>]

IsNormal(entry) == ~entry.one_time

IsDispatchStep == clock' = clock + 1 /\ result'.op = "dispatch"

\* C20: on_packet_received for a packet whose variant is unset, or is not
\* a key of the handler table, returns normally having invoked no handler,
\* started no pass and changed no handler list.
C20_UnknownVariantIgnored ==
    [][ (IsDispatchStep /\ result'.kind \notin Kinds) =>
           /\ result'.outcome = "ignored"
           /\ calls' = calls
           /\ handlers' = handlers
           /\ pass' = pass /\ npass' = npass /\ popped' = popped ]_vars

C20_Witness ==
    /\ result.op = "dispatch"
    /\ result.kind = NoVariant
    /\ result.outcome = "ignored"
    /\ Len(handlers[1]["config"]) = 1
    /\ calls[1] = <<>>
    /\ clock = 2

\* The callbacks of the entries of list.
CallbacksOf(list) == {list[j].cb : j \in 1..Len(list)}

\* C21: while tower n dispatches a packet of kind K, every handler
\* invocation is the invocation, for K, of a callback of K's list, and the
\* list of every other kind (its entries and which passes invoked them)
\* stays as it is; on_packet_received itself changes no list, and no
\* handler is invoked outside a pass.
C21_OnlyHandlersOfKind ==
    [][ \A n \in Towers :
           /\ (pass[n].state # "idle" /\ result.op = "dispatch"
                  /\ result.node = n) =>
                 /\ \A k \in Kinds \ {result.kind} :
                       handlers'[n][k] = handlers[n][k]
                 /\ IsInvokeStep(n) =>
                       LET c == calls'[n][Len(calls'[n])]
                       IN  /\ c[2] = result.kind
                           /\ c[1] \in CallbacksOf(handlers[n][result.kind])
           /\ calls'[n] # calls[n] => pass[n].state = "iter"
           /\ IsDispatchStep => handlers' = handlers /\ calls' = calls ]_vars

C21_Witness ==
    /\ pass[1].state = "idle"
    /\ result.op = "dispatch" /\ result.kind = "ping"
    /\ Shape(handlers[1]["config"]) = <<<<"h1", FALSE>>>>
    /\ Shape(handlers[1]["ping"]) = <<<<"h2", FALSE>>>>
    /\ handlers[1]["config"][1].calls = <<>>
    /\ handlers[1]["ping"][1].calls = <<1>>
    /\ calls[1] = <<<<"h2", "ping", 1>>>>

(***************************************************************************)
(* Claims about what a handler receives (Spec)                             *)
(***************************************************************************)

\* The packets the send_<kind> calls built with timestamp ts.
SentWith(ts) == {j \in 1..Len(sent) : sent[j].ts = ts}

\* C22 (as claimed): every data object a handler of a receiving tower is
\* called with carries the timestamp some send_<kind> call stamped on a
\* packet of that kind, and its node id is the numeric id of the node
\* that made that call.
C22_OriginAndTimestamp ==
    \A n \in Towers : \A c \in 1..Len(args[n]) :
        \E j \in SentWith(args[n][c].timestamp) :
            /\ sent[j].kind = args[n][c].kind
            /\ args[n][c].node_id = sent[j].node

(***************************************************************************)
(* Claims about the packet codec (SpecCodec)                               *)
(***************************************************************************)

Alive(thread) == thread \in {"run", "test"}

\* A step in which tower n's loops call the transport's send or get a
\* payload from its receive.
IsTransportCall(n) ==
    \/ IsLoopSendStep /\ handed'[Len(handed')].node = n
    \/ IsRecvStep(n)

\* C24 (as claimed): stop closes the transport of a running transceiver
\* only when both loops have ended, and once it is closed the loops make
\* no call to the transport's send or receive.
C24_CloseAfterLoopsExit ==
    [][ \A n \in Towers :
           /\ (link[n].open /\ ~link'[n].open) =>
                 ~Alive(send_thread[n]) /\ ~Alive(recv_thread[n])
           /\ (life[n] = "stopped" /\ ~link[n].open) => ~IsTransportCall(n) ]_vars

IsStartStep == nstart' = nstart + 1

\* C25: every start call makes exactly one connect call; when connect
\* raises, the call ends with that error, no thread is started and the
\* stop event is left alone; and a loop is launched only by a start call
\* whose connect has succeeded.
C25_ConnectBeforeLoops ==
    [][ \A n \in Towers :
           /\ (IsStartStep /\ link'[n] # link[n]) =>
                 /\ link'[n].attempts = link[n].attempts + 1
                 /\ link'[n].started = "MeshConnectionError" =>
                       /\ send_thread'[n] = send_thread[n]
                       /\ recv_thread'[n] = recv_thread[n]
                       /\ stop_event'[n] = stop_event[n]
                       /\ link'[n].open = link[n].open
           /\ IsStartStep => \E m \in Towers : link'[m] # link[m]
           /\ ~IsStartStep => link'[n].attempts = link[n].attempts
           /\ (  (send_thread[n] = "new" /\ send_thread'[n] # "new")
               \/ (recv_thread[n] = "new" /\ recv_thread'[n] # "new")) =>
                 /\ IsStartStep
                 /\ link'[n].started = "ok" /\ link'[n].open
                 /\ link'[n].attempts = link[n].attempts + 1 ]_vars

C25_Witness ==
    /\ nstart = 1
    /\ link[1].attempts = 1
    /\ link[1].started = "MeshConnectionError"
    /\ ~link[1].open
    /\ send_thread[1] = "new" /\ recv_thread[1] = "new"
    /\ send_queue[1] # <<>>

\* stop has been called on a transceiver that had been started.
Stopped(n) ==
    life[n] = "stopped" \/ (link[n].stopping /\ send_thread[n] # "new")

\* C26 (as claimed): once stop has been called on a started transceiver it
\* stays stopped: no thread that is not running starts to run, and while
\* a loop is still alive its stop event stays set.
C26_StoppedIsTerminal ==
    [][ \A n \in Towers : Stopped(n) =>
           /\ Stopped(n)'
           /\ ~Alive(send_thread[n]) => ~Alive(send_thread'[n])
           /\ ~Alive(recv_thread[n]) => ~Alive(recv_thread'[n])
           /\ (stop_event[n] /\ (Alive(send_thread[n]) \/ Alive(recv_thread[n])))
                 => stop_event'[n] ]_vars

(***************************************************************************)
(* Claims about polling the simulated transport (SpecNet)                  *)
(***************************************************************************)

\* A step in which node n polls: over simulated_mesh.py only poll_inbox
\* takes entries out of an inbox.
IsPollStep(n) == impl = "simulated_mesh" /\ Len(inbox'[n]) < Len(inbox[n])

\* C28: over simulated_mesh.py a payload placed in a node's inbox reaches
\* that node's inbound callback only in a step in which that node polls (a
\* send passes nothing upward); a poll leaves the inbox empty, and with a
\* callback registered it passes every payload that was in the inbox
\* exactly once, in arrival order, after what was passed before.
C28_PollDrainsInOrder ==
    [][ impl = "simulated_mesh" =>
          \A n \in NodeIds :
             /\ received'[n] # received[n] => IsPollStep(n)
             /\ nsend' # nsend => received'[n] = received[n]
             /\ IsPollStep(n) =>
                   /\ inbox'[n] = <<>>
                   /\ \A m \in NodeIds \ {n} :
                         inbox'[m] = inbox[m] /\ received'[m] = received[m]
                   /\ packet_callback[n] =>
                         /\ Len(received'[n]) = Len(received[n]) + Len(inbox[n])
                         /\ \A j \in 1..Len(received[n]) :
                               received'[n][j] = received[n][j]
                         /\ \A j \in 1..Len(inbox[n]) :
                               received'[n][Len(received[n]) + j] = inbox[n][j][1]
       ]_vars

\* Node 2 was sent two different payloads, has a callback and has polled:
\* both were passed upward in arrival order and the inbox is empty.
C28_Witness ==
    /\ impl = "simulated_mesh"
    /\ packet_callback[2]
    /\ nsend = 2
    /\ Len(received[2]) = 2
    /\ received[2][1] # received[2][2]
    /\ inbox[2] = <<>>

(***************************************************************************)
(* Claims about the contents of the handler lists (SpecDispSeq)            *)
(***************************************************************************)

\* C29 (as claimed): after any sequence of register and unregister calls
\* and dispatch passes, no kind's list holds the same callback in two
\* entries.
C29_NoDuplicateCallbacks ==
    \A n \in Towers : \A k \in Kinds :
        \A i, j \in 1..Len(handlers[n][k]) :
            i # j => handlers[n][k][i].cb # handlers[n][k][j].cb

\* C30: an unregister call for a handler that some entry of the kind's
\* list holds returns True and removes exactly one entry of that list, the
\* first one holding the handler: the entries before it and after it stay,
\* in the same order, and the lists of every other kind and tower are as
\* they were.
C30_UnregisterFirstMatch ==
    [][ IsUnregisterStep =>
          LET n == result'.node
              k == result'.kind
              list == handlers[n][k]
          IN  (\E j \in 1..Len(list) : list[j].cb = result'.cb) =>
                 /\ result'.outcome = "True"
                 /\ Len(handlers'[n][k]) = Len(list) - 1
                 /\ \E p \in 1..Len(list) :
                       /\ list[p].cb = result'.cb
                       /\ \A l \in 1..(p - 1) :
                             list[l].cb # result'.cb /\ handlers'[n][k][l] = list[l]
                       /\ \A l \in p..(Len(list) - 1) :
                             handlers'[n][k][l] = list[l + 1]
                 /\ \A m \in Towers : \A kk \in Kinds :
                       (m # n \/ kk # k) => handlers'[m][kk] = handlers[m][kk]
       ]_vars

\* h1 was registered twice for config, first normally and then one-shot;
\* unregistering h1 returned True and the one-shot entry is what is left.
C30_Witness ==
    /\ nreg = 2
    /\ result.op = "unregister" /\ result.outcome = "True"
    /\ result.kind = "config" /\ result.cb = "h1"
    /\ Len(handlers[1]["config"]) = 1
    /\ handlers[1]["config"][1].cb = "h1"
    /\ handlers[1]["config"][1].one_time
    /\ popped[1] = <<>>

(***************************************************************************)
(* Claims about the node table (SpecTable, SpecNet)                        *)
(***************************************************************************)

IsConstructStep == nconstruct' = nconstruct + 1

\* C31: constructing a transport for a numeric id that already has a
\* node-table entry changes at most that entry's display name: every
\* inbox and every neighbour set is as it was, no entry is added, and no
\* other entry's display name changes.  (Constructing one for a new id
\* leaves every existing entry as it was.)
C31_ReconstructKeepsEntry ==
    [][ IsConstructStep =>
          /\ created \subseteq created'
          /\ \A m \in created :
                inbox'[m] = inbox[m] /\ neighbors'[m] = neighbors[m]
          /\ IF created' = created
             THEN Cardinality({m \in NodeIds : user_id'[m] # user_id[m]}) <= 1
             ELSE \A m \in created : user_id'[m] = user_id[m]
          /\ global_packet_id' = global_packet_id
          /\ received' = received /\ acks' = acks ]_vars

\* Node 2, which has a payload in its inbox and the neighbour 1, got a
\* second transport under another name: the entry kept both.
C31_Witness ==
    /\ nconstruct = 1
    /\ created = {1, 2, 3}
    /\ user_id[2] = "NodeOne"
    /\ inbox[2] # <<>>
    /\ neighbors[2] = {1}

\* C32 (as claimed): a send whose target is a neighbour id, with or
\* without a transport constructed for it, completes without error and
\* leaves the payload at the end of the inbox of every target.
C32_EntryOnFirstReference ==
    [][ IsSendStep =>
          LET n == last'.node
              d == last'.dest
              targets == IF d = NoDest THEN neighbors[n]
                         ELSE IF d \in neighbors[n] THEN {d} ELSE {}
          IN  /\ last'.err = "none"
              /\ \A m \in targets :
                    /\ Len(inbox'[m]) = Len(inbox[m]) + 1
                    /\ inbox'[m][Len(inbox'[m])][1] = last'.data ]_vars

\* C33: only explicit neighbour configuration changes a neighbour set:
\* connect, close, send (to a neighbour, a non-neighbour or all, with or
\* without an acknowledgment, succeeding or failing), poll and receive
\* leave every neighbour set as it was; connect and close leave the whole
\* node table as it was; and a send changes no inbox other than those of
\* its destination or, for a broadcast, of the sender's neighbours.
C33_NeighborsOnlyConfigured ==
    [][ /\ neighbors' # neighbors => nconf' = nconf + 1
        /\ link' # link =>
              /\ inbox' = inbox /\ neighbors' = neighbors
              /\ created' = created /\ user_id' = user_id
              /\ acks' = acks
        /\ IsSendStep =>
              LET targets == IF last'.dest = NoDest
                             THEN neighbors[last'.node] ELSE {last'.dest}
              IN  \A m \in NodeIds \ targets : inbox'[m] = inbox[m] ]_vars

\* Node 1 broadcast and sent a unicast whose acknowledgment failed, node 2
\* connected, drained its inbox and closed: the neighbour sets are those
\* the table started with.
C33_Witness ==
    /\ nsend = 2 /\ nconf = 0
    /\ last.dest = NoDest /\ last.delivered = {2, 3}
    /\ \E a \in 1..Len(acks) : ~acks[a].ok
    /\ link[2].attempts = 1 /\ ~link[2].open
    /\ inbox[2] = <<>> /\ Len(inbox[3]) = 1
    /\ neighbors = StarTopology

(***************************************************************************)
(* Claims about closing and stopping (SpecLife)                            *)
(***************************************************************************)

\* A step in which a stop() call on tower n ends.
IsStopReturn(n) == link[n].stopping /\ ~link'[n].stopping

\* C34 (as claimed): closing a transport that is not connected raises
\* nothing and changes no state, also when the close is asked for through
\* stop(): a stop() call on a tower whose transport is not connected
\* (never connected, or closed before) ends by returning from close(), not
\* by an error, and leaves the connection and the lifecycle as they were.
C34_CloseWhenNotConnected ==
    [][ \A n \in Towers :
          (IsStopReturn(n) /\ ~link[n].open) =>
             /\ send_thread[n] # "new"
             /\ link'[n].open = link[n].open
             /\ life'[n] = life[n] ]_vars

(***************************************************************************)
(* Claims about the send loop's progress (SpecLive, SpecSend)              *)
(***************************************************************************)

\* C35: with the send loop scheduled fairly, the k-th packet enqueued on a
\* started tower is eventually handed to the transport's send, unless
\* stop() is called; this for every k.
C35_EnqueuedEventuallySent ==
    \A k \in 1..MaxCalls :
        (life[Sender] = "started" /\ Len(BuiltItems(sent, Sender)) >= k)
           ~> (Len(HandedItems(handed, Sender)) >= k \/ nstop > 0)

\* Two packets were enqueued on the tower, which was started once and
\* never stopped: both were handed over and the queue is empty.
C35_Witness ==
    /\ nstop = 0 /\ nstart = 1
    /\ life[Sender] = "started"
    /\ Len(sent) = 2
    /\ Len(HandedItems(handed, Sender)) = 2
    /\ send_queue[Sender] = <<>>

\* C36 (as claimed): once stop() has been called on a tower, a transport
\* send made by its send loop is the last one, the thread ending with it;
\* a send thread that has ended stays ended; and the items in the queue
\* of an ended send thread are never handed over.
C36_AtMostOneAfterStop ==
    [][ /\ (IsLoopSendStep /\ nstop > 0) =>
              send_thread'[last'.node] = "done"
        /\ \A n \in Towers :
              send_thread[n] = "done" =>
                 /\ send_thread'[n] = "done"
                 /\ ~(IsLoopSendStep /\ last'.node = n) ]_vars

(***************************************************************************)
(* Claims about acknowledgments and inboxes (SpecNet)                      *)
(***************************************************************************)

\* The acknowledgment callbacks invoked in this step.
NewAcks == SubSeq(acks', Len(acks) + 1, Len(acks'))

\* C37 (as claimed): a send for which the success callback is invoked
\* appended its payload to at least one inbox.
C37_SuccessOnlyIfDelivered ==
    [][ IsSendStep =>
          \A a \in 1..Len(NewAcks) : NewAcks[a].ok => inbox' # inbox ]_vars

\* C38: an acknowledgment callback is invoked only inside a send call, at
\* most once per call and only for a call that asked for one, with the
\* packet id that this call then returns; what was reported before stays
\* as it was, and no step other than a send reports anything.
C38_AckInsideSend ==
    [][ /\ Len(acks') >= Len(acks)
        /\ SubSeq(acks', 1, Len(acks)) = acks
        /\ acks' # acks =>
              /\ IsSendStep
              /\ Len(NewAcks) = 1
              /\ last'.want_ack /\ last'.err = "none"
              /\ NewAcks[1].id = last'.ret
              /\ NewAcks[1].node = last'.node ]_vars

\* Two sends that asked for an acknowledgment: one reported success, the
\* other failure, each under the id its own call returned.
C38_Witness ==
    /\ nsend = 2 /\ Len(acks) = 2
    /\ acks[1].ok # acks[2].ok
    /\ acks[1].id # acks[2].id
    /\ acks[2].id = last.ret
    /\ last.want_ack

\* Everything node m was sent so far, in arrival order: what its transport
\* passed upward, then what is still in its inbox.
Arrived(m) == received[m] \o Datas(inbox[m])

\* C39 (as claimed): however sends into a node's inbox interleave with
\* the polls or receives that drain it, every payload appended to the
\* inbox is passed upward exactly once and in arrival order: a step that
\* drains (a poll, a receive) moves payloads from the front of the inbox
\* to the end of what was passed upward, losing and repeating none, and a
\* send only appends to inboxes.
C39_EachPayloadOnce ==
    [][ \A m \in NodeIds :
          /\ Len(Arrived(m)') >= Len(Arrived(m))
          /\ SubSeq(Arrived(m)', 1, Len(Arrived(m))) = Arrived(m)
          /\ ~IsSendStep => Arrived(m)' = Arrived(m)
          /\ Len(received'[m]) >= Len(received[m])
          /\ SubSeq(received'[m], 1, Len(received[m])) = received[m] ]_vars

(***************************************************************************)
(* Claims about handlers that raise (SpecHandle)                           *)
(***************************************************************************)

\* A step in which a handler called by tower n's dispatch raises.
IsHandlerRaise(n) == pass[n].state = "iter" /\ pass'[n].state = "raised"

\* C40: a handler that raises during a dispatch does not end the receive
\* loop: the receive thread is where it was, the inbox and the
\* registrations are untouched, and the receive thread ends only when
\* stop() was called; and every payload received that decodes to a packet
\* of a kind starts a dispatch pass over the handlers registered for that
\* kind, whatever happened to the packets before it.
C40_HandlerErrorContained ==
    [][ \A n \in Towers :
          /\ IsHandlerRaise(n) =>
                /\ recv_thread'[n] = recv_thread[n]
                /\ recv_thread'[n] # "done"
                /\ inbox' = inbox
                /\ \A k \in Kinds : Shape(handlers'[n][k]) = Shape(handlers[n][k])
          /\ (recv_thread[n] # "done" /\ recv_thread'[n] = "done") =>
                stop_event[n]
          /\ IsRecvStep(n) =>
                LET data == received'[n][Len(received'[n])]
                IN  (Decode(data) # DecodeError /\ Decode(data).kind \in Kinds) =>
                       /\ pass'[n].state = "iter"
                       /\ pass'[n].kind = Decode(data).kind
                       /\ pass'[n].snap = handlers[n][Decode(data).kind] ]_vars

\* The one-shot handler of tower 2 raised on the first config packet, so
\* its entry was not removed, and was called again with the second.
C40_Witness ==
    /\ Len(handlers[Receiver]["config"]) = 1
    /\ handlers[Receiver]["config"][1].one_time
    /\ handlers[Receiver]["config"][1].calls = <<1, 2>>
    /\ Len(calls[Receiver]) = 2
    /\ recv_thread[Receiver] \in {"run", "test"}

====
